---- MODULE Spec2Model ----
(***************************************************************************)
(* State-machine model of the TK-Planes pixel samplers                     *)
(* (src/data/pixel_samplers.py) and of the loss schedule of KPlanesModel   *)
(* (src/kplanes/kplanes.py).                                               *)
(*                                                                         *)
(* The tiered sampler hard-codes 153 images and a 720 x 1280 frame.  The   *)
(* model keeps the code's arithmetic but runs it on a small rotation and a *)
(* small frame (NumImages, FrameHeight, FrameWidth), so that the shuffled  *)
(* queues can be enumerated.                                               *)
(***************************************************************************)
EXTENDS Integers, Sequences, FiniteSets, TLC

\* ---------------------------------------------------------------- sizes
\* Number of image ids in the rotation (153 in the source).
NumImages == 2
\* Frame height the row anchors tile (720 in the source).
FrameHeight == 24
\* Frame width the column anchors tile (1280 in the source).
FrameWidth == 24
\* kwargs["patch_size"]: the smallest size for which all 4 tiers are non-empty.
PatchSize == 8
\* self.num_to_select
NumToSelect == 1
\* for idx in range(4)
NumTiers == 4

\* ------------------------------------------------------------- helpers
Range(s) == {s[i] : i \in 1..Len(s)}

Min(a, b) == IF a <= b THEN a ELSE b

\* torch.arange(0, n)
Arange(n) == [k \in 1..n |-> k - 1]

\* Tensor.repeat_interleave(n): every element n times, in place.
RepeatInterleave(arr, n) == [k \in 1..(Len(arr) * n) |-> arr[((k - 1) \div n) + 1]]

\* Tensor.repeat(n): the whole tensor n times.
Repeat(arr, n) == [k \in 1..(Len(arr) * n) |-> arr[((k - 1) % Len(arr)) + 1]]

\* random.shuffle(lst): any arrangement of the (pairwise distinct) elements.
Shuffles(lst) == {p \in [1..Len(lst) -> Range(lst)] : Range(p) = Range(lst)}

\* random.randint(0, patch_size - 1): the model draws the lowest and the
\* highest start only.
PhaseChoices == {ph \in 0..(PatchSize - 1) : ph = 0 \/ ph = PatchSize - 1}

\* ------------------------------------------- PixelSampler.sample_method
\* Variant: the rows of the height column repeated without repeat_interleave.
AllPixelsHeightCycled(batch_size, num_images, image_height, image_width) ==
    LET num_imgs == RepeatInterleave(Arange(num_images), batch_size \div num_images)
        num_height == Repeat(Arange(image_height), batch_size \div image_height)
        num_width == Repeat(Arange(image_width), batch_size \div image_width)
    IN  [k \in 1..Len(num_imgs) |-> <<num_imgs[k], num_height[k], num_width[k]>>]

\* The all_pixels branch: three interleaved aranges, concatenated column-wise.
AllPixels(batch_size, num_images, image_height, image_width) ==
    LET num_imgs == RepeatInterleave(Arange(num_images), batch_size \div num_images)
        num_height == Repeat(RepeatInterleave(Arange(image_height),
                                              batch_size \div (image_height * num_images)),
                             num_images)
        num_width == Repeat(Arange(image_width), batch_size \div image_width)
    IN  [k \in 1..Len(num_imgs) |-> <<num_imgs[k], num_height[k], num_width[k]>>]

\* The mask branch: random.sample(range(len(nonzero_indices)), k=batch_size)
\* raises ValueError when the sample is larger than the population.
MaskedDrawFails(batch_size, nonzero_count) == batch_size > nonzero_count

\* ------------------------------- TieredFeaturePatchPixelSampler.__init__
\* dh_lst[idx] before its shuffle: dh_start + dh_idx*patch_size for
\* dh_idx in range((720 // patch_size) - 1); likewise dw_lst with 1280.
AnchorCount(frame) == (frame \div PatchSize) - 1

\* Variant: the anchors counted from 1 instead of 0.
AnchorListShifted(start, frame) ==
    [k \in 1..AnchorCount(frame) |-> start + k * PatchSize]

AnchorList(start, frame) == [k \in 1..AnchorCount(frame) |-> start + (k - 1) * PatchSize]

\* One freshly built queue: num_to_select rows, each with its own start and shuffle.
AnchorFills(frame) ==
    [1..NumToSelect -> UNION {Shuffles(AnchorList(start, frame)) : start \in PhaseChoices}]

\* self.select_idxs = [i for i in range(153)]; random.shuffle(self.select_idxs)
SelectFills == Shuffles(Arange(NumImages))

\* self.indices: the all_pixels grid of each tier, curr_dim halved per tier.
RECURSIVE TierDims(_, _)
TierDims(curr_dim, n) ==
    IF n = 0 THEN << >> ELSE <<curr_dim>> \o TierDims(curr_dim \div 2, n - 1)

BaseGrids ==
    LET dims == TierDims(PatchSize, NumTiers)
    IN  [t \in 1..NumTiers |->
            AllPixels((dims[t] * dims[t]) * NumImages, NumImages, dims[t], dims[t])]

VARIABLES
    select_idxs,    \* self.select_idxs: the image ids still in the rotation
    dh_lst,         \* self.dh_lst: num_to_select rows of row anchors
    dw_lst,         \* self.dw_lst: num_to_select rows of column anchors
    indices,        \* self.indices: the 4 precomputed base grids
    sampler_pc,     \* "live", or "exited" once exit(-1) has run
    call,           \* the arguments of the last sample_method call
    ret,            \* what the last sample_method call returned or raised
    sel_used,       \* log: ids selected since select_idxs was last filled
    dh_used,        \* log: row anchors returned since dh_lst was last filled
    dw_used,        \* log: column anchors returned since dw_lst was last filled
    ncalls          \* log: unmasked calls since construction, saturating

tiered_vars == <<select_idxs, dh_lst, dw_lst, indices, sampler_pc, call, ret,
                 sel_used, dh_used, dw_used, ncalls>>

\* ------------------------- TieredFeaturePatchPixelSampler.sample_method
\* Variant: the rotation refilled while it still holds num_to_select ids.
NeedsSelectRefillEarly(q) == Len(q) <= NumToSelect

\* len(self.select_idxs) < self.num_to_select
NeedsSelectRefill(q) == Len(q) < NumToSelect

\* Variant: a queue refilled while it still holds one anchor.
QueueNearlyExhausted(lst) == Len(lst[1]) <= 1

\* self.dw_lst.shape[1] == 0 (and the same test on self.dh_lst)
QueueExhausted(lst) == Len(lst[1]) = 0

\* self.select_idxs[:self.num_to_select]
TakeFront(q, n) == SubSeq(q, 1, Min(n, Len(q)))

\* self.select_idxs[self.num_to_select:]
DropFront(q, n) == SubSeq(q, Min(n, Len(q)) + 1, Len(q))

\* self.dw_lst[:,0]
FirstColumn(lst) == [idx \in 1..Len(lst) |-> lst[idx][1]]

\* Variant: the popped anchor left in the queue.
DropFirstColumnKept(lst) == lst

\* self.dw_lst[:,1:]
DropFirstColumn(lst) == [idx \in 1..Len(lst) |-> Tail(lst[idx])]

\* select = torch.zeros(153).to(bool); select[curr_select_idxs] = True
SelectMask(ids) == [k \in 1..NumImages |-> (k - 1) \in Range(ids)]

\* The ids a selection mask holds, ascending: the order index[mask] keeps.
RECURSIVE SelectedIds(_, _)
SelectedIds(select, k) ==
    IF k > Len(select) THEN << >>
    ELSE (IF select[k] THEN <<k - 1>> ELSE << >>) \o SelectedIds(select, k + 1)

\* index[curr_select] with curr_select = select.repeat_interleave(curr_dim**2):
\* the rows of the selected images' blocks, a copy, in the order of the grid.
MaskSelect(index, select, block) ==
    LET ids == SelectedIds(select, 1)
    IN  [j \in 1..(Len(ids) * block) |->
            index[ids[((j - 1) \div block) + 1] * block + ((j - 1) % block) + 1]]

\* Variant: the anchor halved with floor instead of ceil.
HalveAnchorFloor(d) == d \div 2

\* torch.ceil(d / 2).to(int), for one anchor d >= 0
HalveAnchor(d) == (d + 1) \div 2

HalveAnchors(ds) == [i \in 1..Len(ds) |-> HalveAnchor(ds[i])]

\* for index in self.indices: ... ; the tiers from t on.
RECURSIVE TierLoop(_, _, _, _, _, _)
TierLoop(t, curr_dim, dw, dh, select, grids) ==
    IF t > Len(grids) THEN << >>
    ELSE LET curr_dw == RepeatInterleave(dw, curr_dim * curr_dim)
             curr_dh == RepeatInterleave(dh, curr_dim * curr_dim)
             picked == MaskSelect(grids[t], select, curr_dim * curr_dim)
             curr_index == [k \in 1..Len(picked) |->
                               <<picked[k][1], picked[k][2] + curr_dh[k],
                                 picked[k][3] + curr_dw[k]>>]
         IN  <<curr_index>> \o
             TierLoop(t + 1, curr_dim \div 2, HalveAnchors(dw), HalveAnchors(dh),
                      select, grids)

\* Variant: index[curr_select] taken as a view, so that the anchors are
\* added to the stored grids.
GridsAfterCallInPlace(grids, select, tiers) ==
    [t \in 1..Len(grids) |->
        LET block == Len(grids[t]) \div Len(select)
            before(img) == Cardinality({i \in Range(SelectedIds(select, 1)) : i < img})
        IN  [k \in 1..Len(grids[t]) |->
                LET img == (k - 1) \div block
                IN  IF select[img + 1]
                    THEN tiers[t][before(img) * block + ((k - 1) % block) + 1]
                    ELSE grids[t][k]]]

\* self.indices after the tier loop: curr_index = index[curr_select] is a
\* copy (boolean-mask indexing), so the += on it leaves the stored grids
\* as they were.
GridsAfterCall(grids, select, tiers) == grids

\* The value of a call that raised instead of returning.
Raised(kind) ==
    [kind |-> kind, indices |-> << >>, dw |-> << >>, dh |-> << >>,
     select |-> << >>, patch_size |-> 0]

\* Variant: the base sampler's masked indices returned instead of exit(-1).
TieredMaskedOutcomeFallback(batch_size, nonzero_count) ==
    IF MaskedDrawFails(batch_size, nonzero_count) THEN "ValueError" ELSE "indices"

\* if isinstance(mask, Tensor): the base draw runs first, then exit(-1).
TieredMaskedOutcome(batch_size, nonzero_count) ==
    IF MaskedDrawFails(batch_size, nonzero_count) THEN "ValueError" ELSE "SystemExit"

\* The number of tile positions of the patch_size grid.
GridTiles == AnchorCount(FrameHeight) * AnchorCount(FrameWidth)

\* The argument tuples (batch_size, num_images, image_height, image_width)
\* the calls are made with, and the counts of true mask entries.
ArgChoices ==
    {<<FrameHeight * FrameWidth, NumImages, FrameHeight, FrameWidth>>,
     <<PatchSize * PatchSize, 1, PatchSize, PatchSize>>}

MaskCounts == {0, PatchSize * PatchSize}

CallOf(args, masked, nonzero_count) ==
    [batch_size |-> args[1], num_images |-> args[2], image_height |-> args[3],
     image_width |-> args[4], masked |-> masked, nonzero_count |-> nonzero_count]

\* The state after TieredFeaturePatchPixelSampler(...) has been constructed,
\* for the frame sizes its anchors tile.
InitTieredOn(frame_height, frame_width) ==
    /\ select_idxs \in SelectFills
    /\ dh_lst \in AnchorFills(frame_height)
    /\ dw_lst \in AnchorFills(frame_width)
    /\ indices = BaseGrids
    /\ sampler_pc = "live"
    /\ call = CallOf(<<0, 0, 0, 0>>, FALSE, 0)
    /\ ret = Raised("none")
    /\ sel_used = << >>
    /\ dh_used = << >>
    /\ dw_used = << >>
    /\ ncalls = 0

InitTiered == InitTieredOn(FrameHeight, FrameWidth)

\* sample_method without a mask, for the frame sizes the anchors tile.
SampleMethodOn(frame_height, frame_width) ==
    /\ sampler_pc = "live"
    /\ \E args \in ArgChoices :
       \E sel0 \in (IF NeedsSelectRefill(select_idxs) THEN SelectFills ELSE {select_idxs}) :
       \E dw0 \in (IF QueueExhausted(dw_lst) THEN AnchorFills(frame_width) ELSE {dw_lst}) :
       \E dh0 \in (IF QueueExhausted(dh_lst) THEN AnchorFills(frame_height) ELSE {dh_lst}) :
          LET curr_select_idxs == TakeFront(sel0, NumToSelect)
              select == SelectMask(curr_select_idxs)
              dw == FirstColumn(dw0)
              dh == FirstColumn(dh0)
              tiers == TierLoop(1, PatchSize, dw, dh, select, indices)
          IN  /\ select_idxs' = DropFront(sel0, NumToSelect)
              /\ dw_lst' = DropFirstColumn(dw0)
              /\ dh_lst' = DropFirstColumn(dh0)
              /\ indices' = GridsAfterCall(indices, select, tiers)
              /\ ret' = [kind |-> "indices",
                         indices |-> tiers,
                         dw |-> dw, dh |-> dh, select |-> select,
                         patch_size |-> PatchSize]
              /\ call' = CallOf(args, FALSE, 0)
              /\ sel_used' = (IF NeedsSelectRefill(select_idxs) THEN << >> ELSE sel_used)
                                \o curr_select_idxs
              /\ dw_used' = Append(IF QueueExhausted(dw_lst) THEN << >> ELSE dw_used, dw)
              /\ dh_used' = Append(IF QueueExhausted(dh_lst) THEN << >> ELSE dh_used, dh)
              /\ ncalls' = Min(ncalls + 1, GridTiles)
    /\ UNCHANGED sampler_pc

SampleMethodBody == SampleMethodOn(FrameHeight, FrameWidth)

\* sample_method with a tensor mask.
SampleMethodMaskedBody ==
    /\ sampler_pc = "live"
    /\ \E args \in ArgChoices, nonzero_count \in MaskCounts :
          LET outcome == TieredMaskedOutcome(args[1], nonzero_count)
          IN  /\ call' = CallOf(args, TRUE, nonzero_count)
              /\ ret' = Raised(outcome)
              /\ sampler_pc' = IF outcome = "SystemExit" THEN "exited" ELSE "live"
    /\ UNCHANGED <<select_idxs, dh_lst, dw_lst, indices, sel_used, dh_used, dw_used,
                   ncalls>>

\* ------------------------------------------ PixelSampler and its subclasses
\* The index tuples of a tensor of the given shape, in row-major order: the
\* order in which torch.nonzero lists the entries.
RECURSIVE Grid(_)
Grid(shape) ==
    IF shape = << >> THEN << << >> >>
    ELSE LET rest == Grid(Tail(shape))
         IN  [k \in 1..(Head(shape) * Len(rest)) |->
                 <<(k - 1) \div Len(rest)>> \o rest[((k - 1) % Len(rest)) + 1]]

\* mask=None
NoMask == [shape |-> << >>, true |-> {}]

\* isinstance(mask, torch.Tensor)
IsTensorMask(mask) == mask.shape # << >>

\* Variant: every entry of the mask listed, true or not.
NonzeroAll(mask) == Grid(mask.shape)

\* torch.nonzero(mask[..., 0], as_tuple=False): one row per true entry, with
\* one column per dimension of the mask before its channel dimension.
Nonzero(mask) == SelectSeq(Grid(mask.shape), LAMBDA t : t \in mask.true)

\* Variant: random.choices, a draw with replacement.
RandomChoices(n, k) == [1..k -> 0..(n - 1)]

\* random.sample(range(n), k=k), for 0 <= k <= n: k distinct positions.
RandomSample(n, k) ==
    {s \in [1..k -> 0..(n - 1)] : \A a, b \in 1..k : a # b => s[a] # s[b]}

\* What one sample_method call returned or raised; `columns` is the second
\* dimension of the returned tensor.
Returned(rows, columns) == [kind |-> "indices", indices |-> rows, columns |-> columns]

Raises(kind) == [kind |-> kind, indices |-> << >>, columns |-> 0]

\* The mask branch of PixelSampler.sample_method.
MaskedDraw(batch_size, mask) ==
    LET nonzero_indices == Nonzero(mask)
    IN  IF MaskedDrawFails(batch_size, Len(nonzero_indices))
        THEN {Raises("ValueError")}
        ELSE {Returned([k \in 1..batch_size |-> nonzero_indices[chosen_indices[k] + 1]],
                       Len(mask.shape)) :
                 chosen_indices \in RandomSample(Len(nonzero_indices), batch_size)}

\* torch.cat([num_imgs, num_height, num_width], dim=1) needs the three
\* columns to have the same number of rows.
CatFits(batch_size, num_images, image_height, image_width) ==
    LET rows_imgs == num_images * (batch_size \div num_images)
        rows_height == image_height * (batch_size \div (image_height * num_images))
                           * num_images
        rows_width == image_width * (batch_size \div image_width)
    IN  rows_imgs = rows_height /\ rows_height = rows_width

\* The all_pixels branch of PixelSampler.sample_method.
AllPixelsDraw(batch_size, num_images, image_height, image_width) ==
    IF CatFits(batch_size, num_images, image_height, image_width)
    THEN {Returned(AllPixels(batch_size, num_images, image_height, image_width), 3)}
    ELSE {Raises("RuntimeError")}

\* The else branch: floor(rand((batch_size, 3)) * [num_images, height, width]),
\* every row any triple of the index space.
UniformDraw(batch_size, num_images, image_height, image_width) ==
    {Returned(rows, 3) :
        rows \in [1..batch_size -> Range(Grid(<<num_images, image_height, image_width>>))]}

\* PixelSampler.sample_method
PixelSampleMethod(batch_size, num_images, image_height, image_width, mask, all_pixels) ==
    IF IsTensorMask(mask) THEN MaskedDraw(batch_size, mask)
    ELSE IF all_pixels
         THEN AllPixelsDraw(batch_size, num_images, image_height, image_width)
         ELSE UniformDraw(batch_size, num_images, image_height, image_width)

\* Variant: the all_pixels branch of the base class inherited.
EquirectangularSampleMethodInherited(batch_size, num_images, image_height, image_width, mask, all_pixels) ==
    PixelSampleMethod(batch_size, num_images, image_height, image_width, mask, all_pixels)

\* EquirectangularPixelSampler.sample_method: its signature has no all_pixels
\* parameter; its unmasked draw also floors a product with the three sizes.
EquirectangularSampleMethod(batch_size, num_images, image_height, image_width, mask, all_pixels) ==
    IF all_pixels THEN {Raises("TypeError")}
    ELSE IF IsTensorMask(mask) THEN MaskedDraw(batch_size, mask)
         ELSE UniformDraw(batch_size, num_images, image_height, image_width)

\* PatchPixelSampler.sample_method: the unmasked branch prints and calls
\* exit(-1) before any patch is built.
PatchSampleMethod(batch_size, num_images, image_height, image_width, mask, all_pixels) ==
    IF IsTensorMask(mask) THEN MaskedDraw(batch_size, mask)
    ELSE {Raises("SystemExit")}

SamplerClasses == {"PixelSampler", "EquirectangularPixelSampler", "PatchPixelSampler"}

\* self.sample_method(...), resolved on the class of self.
SampleMethodOf(class, batch_size, num_images, image_height, image_width, mask, all_pixels) ==
    IF class = "PatchPixelSampler"
    THEN PatchSampleMethod(batch_size, num_images, image_height, image_width, mask,
                           all_pixels)
    ELSE IF class = "EquirectangularPixelSampler"
         THEN EquirectangularSampleMethod(batch_size, num_images, image_height,
                                          image_width, mask, all_pixels)
         ELSE PixelSampleMethod(batch_size, num_images, image_height, image_width, mask,
                                all_pixels)

\* The record of one sample_method call.
MethodCall(batch_size, num_images, image_height, image_width, mask, all_pixels) ==
    [batch_size |-> batch_size, num_images |-> num_images,
     image_height |-> image_height, image_width |-> image_width,
     mask |-> mask, all_pixels |-> all_pixels]

\* ------------------------------------------------ the collation paths
\* What collate_image_dataset_batch(_list), sample or a direct sample_method
\* call ended in: the collated batch ("batch"), bare indices ("indices") or
\* the error raised.  `image` lists, per collated pixel value, the (list
\* position, row, column) it was read at; `calls` lists the sample_method
\* calls made on the way; indices_dim is the rank of the "indices" tensor.
Outcome(kind, path, rows, indices_dim, image, keys, calls) ==
    [kind |-> kind, path |-> path, indices |-> rows, indices_dim |-> indices_dim,
     image |-> image, keys |-> keys, calls |-> calls]

Failed(kind, path, calls) == Outcome(kind, path, << >>, 0, << >>, {}, calls)

\* batch["mask"] of a stacked batch, shape [num_images, height, width, 1].
StackedMask(batch) ==
    [shape |-> <<Len(batch.shapes), batch.shapes[1][1], batch.shapes[1][2]>>,
     true |-> UNION {{<<i - 1, rc[1], rc[2]>> : rc \in batch.mask[i]} :
                        i \in 1..Len(batch.shapes)}]

\* batch["mask"][i] of a list batch: shaped like the image, [height, width, 1],
\* or with a leading dimension of one image, [1, height, width, 1].
ListMask(batch, i) ==
    IF batch.mask_rank = 3
    THEN [shape |-> batch.shapes[i], true |-> batch.mask[i]]
    ELSE [shape |-> <<1>> \o batch.shapes[i],
          true |-> {<<0, rc[1], rc[2]>> : rc \in batch.mask[i]}]

\* indices, dw, dh, select, xy_dim = <tensor>: the rows of the tensor are
\* unpacked, and there must be five of them.
UnpacksToFive(rows) == Len(rows) = 5

\* if keep_full_image: after the unpacking of five rows.  batch["image"][select]
\* indexes the images with the entries of the fourth row; the patch slices
\* then use the fifth row, a tensor of three entries, as a slice bound.
FullImageFailure(rows, num_images) ==
    IF \E j \in 1..Len(rows[4]) : rows[4][j] >= num_images
    THEN "IndexError" ELSE "TypeError"

\* collated_batch["indices"] = indices; the remapping through
\* batch["image_idx"] is commented out.
StackedIndices(rows, image_idx) == rows

\* The mask that collate_image_dataset_batch passes on.
StackedCallMask(batch) == IF batch.has_mask THEN StackedMask(batch) ELSE NoMask

\* num_rays_per_batch = image_height * image_width, whatever was passed.
StackedRays(batch, num_rays_per_batch) == batch.shapes[1][1] * batch.shapes[1][2]

\* The one sample_method call of collate_image_dataset_batch.
StackedCall(batch, num_rays_per_batch) ==
    MethodCall(StackedRays(batch, num_rays_per_batch), Len(batch.shapes),
               batch.shapes[1][1], batch.shapes[1][2], StackedCallMask(batch),
               ~batch.has_mask)

\* collate_image_dataset_batch after its sample_method call ended in `drawn`.
StackedFinish(drawn, batch, keep_full_image, calls) ==
    LET path == "collate_image_dataset_batch"
    IN  IF drawn.kind # "indices" THEN Failed(drawn.kind, path, calls)
        ELSE IF batch.has_mask
        THEN IF keep_full_image
             THEN Failed("UnboundLocalError", path, calls)
             ELSE Outcome("batch", path, StackedIndices(drawn.indices, batch.image_idx),
                          2, << >>, {"indices"}, calls)
        ELSE IF ~UnpacksToFive(drawn.indices) THEN Failed("ValueError", path, calls)
        ELSE IF keep_full_image
        THEN Failed(FullImageFailure(drawn.indices, Len(batch.shapes)), path, calls)
        ELSE Outcome("batch", path, <<drawn.indices[1]>>, 1, << >>, {"indices"}, calls)

\* collate_image_dataset_batch
CollateImageDatasetBatch(class, batch, num_rays_per_batch, keep_full_image) ==
    LET c == StackedCall(batch, num_rays_per_batch)
    IN  {StackedFinish(drawn, batch, keep_full_image, <<c>>) :
            drawn \in SampleMethodOf(class, c.batch_size, c.num_images, c.image_height,
                                     c.image_width, c.mask, c.all_pixels)}

\* Variant: the remainder of the budget is dropped.
RaysInBatchEven(num_rays_per_batch, num_images, i) == num_rays_per_batch \div num_images

\* num_rays_in_batch for the image at list position i (from 0): the even share,
\* and for the last image what the others left.
RaysInBatch(num_rays_per_batch, num_images, i) ==
    IF i = num_images - 1
    THEN num_rays_per_batch - (num_images - 1) * (num_rays_per_batch \div num_images)
    ELSE num_rays_per_batch \div num_images

\* The sample_method call for the image at list position i.
ListCall(batch, num_rays_per_batch, i) ==
    MethodCall(RaysInBatch(num_rays_per_batch, Len(batch.shapes), i), 1,
               batch.shapes[i + 1][1], batch.shapes[i + 1][2],
               IF batch.has_mask THEN ListMask(batch, i + 1) ELSE NoMask, FALSE)

\* indices[:, 0] = i
SetImageColumn(rows, i) == [k \in 1..Len(rows) |-> [rows[k] EXCEPT ![1] = i]]

\* Variant: the pixel values read at (column, row).
GatherTransposed(rows, i) == [k \in 1..Len(rows) |-> <<i, rows[k][3], rows[k][2]>>]

\* batch["image"][i][indices[:, 1], indices[:, 2]]: where each value is read.
Gather(rows, i) == [k \in 1..Len(rows) |-> <<i, rows[k][2], rows[k][3]>>]

\* indices[:, 0] = batch["image_idx"][c]
RemapImageColumn(rows, image_idx) ==
    [k \in 1..Len(rows) |-> [rows[k] EXCEPT ![1] = image_idx[rows[k][1] + 1]]]

\* The for loop of collate_image_dataset_batch_list, from list position i on;
\* acc holds all_indices and all_images, concatenated, and the calls so far.
RECURSIVE ListLoop(_, _, _, _, _)
ListLoop(class, batch, num_rays_per_batch, i, acc) ==
    IF i = Len(batch.shapes) THEN {acc}
    ELSE LET c == ListCall(batch, num_rays_per_batch, i)
             calls == Append(acc.calls, c)
             path == "collate_image_dataset_batch_list"
         IN  UNION {
               IF drawn.kind # "indices" THEN {Failed(drawn.kind, path, calls)}
               ELSE IF drawn.columns < 3 THEN {Failed("IndexError", path, calls)}
               ELSE ListLoop(class, batch, num_rays_per_batch, i + 1,
                             [acc EXCEPT !.indices = @ \o SetImageColumn(drawn.indices, i),
                                         !.image = @ \o Gather(drawn.indices, i),
                                         !.calls = calls]) :
               drawn \in SampleMethodOf(class, c.batch_size, c.num_images, c.image_height,
                                        c.image_width, c.mask, c.all_pixels)}

\* collate_image_dataset_batch_list after its loop ended in `looped`.
ListFinish(looped, batch, num_rays_per_batch, keep_full_image) ==
    IF looped.kind # "batch" THEN looped
    ELSE IF Len(looped.image) # num_rays_per_batch
    THEN Failed("AssertionError", looped.path, looped.calls)
    ELSE [looped EXCEPT !.indices = RemapImageColumn(@, batch.image_idx),
                        !.keys = {"image", "indices"}
                                    \cup (IF keep_full_image THEN {"full_image"} ELSE {})]

\* collate_image_dataset_batch_list
CollateImageDatasetBatchList(class, batch, num_rays_per_batch, keep_full_image) ==
    {ListFinish(looped, batch, num_rays_per_batch, keep_full_image) :
        looped \in ListLoop(class, batch, num_rays_per_batch, 0,
                            Outcome("batch", "collate_image_dataset_batch_list", << >>, 2,
                                    << >>, {}, << >>))}

\* Variant: anything that is not a list is collated as a stacked tensor.
SampleDispatchLoose(image_type) ==
    IF image_type = "list" THEN "collate_image_dataset_batch_list"
    ELSE "collate_image_dataset_batch"

\* The isinstance chain of sample.
SampleDispatch(image_type) ==
    IF image_type = "list" THEN "collate_image_dataset_batch_list"
    ELSE IF image_type = "tensor" THEN "collate_image_dataset_batch"
    ELSE "raise"

\* sample
Sample(class, image_batch, num_rays_per_batch, keep_full_image) ==
    LET route == SampleDispatch(image_batch.image)
    IN  IF route = "collate_image_dataset_batch_list"
        THEN CollateImageDatasetBatchList(class, image_batch, num_rays_per_batch,
                                          keep_full_image)
        ELSE IF route = "collate_image_dataset_batch"
        THEN CollateImageDatasetBatch(class, image_batch, num_rays_per_batch,
                                      keep_full_image)
        ELSE {Failed("ValueError", "none", << >>)}

\* Variant: the budget stored as given.
RoundedRaysKept(num_rays_per_batch, patch_size) == num_rays_per_batch

\* (num_rays_per_batch // (self.patch_size**2)) * (self.patch_size**2)
RoundedRays(num_rays_per_batch, patch_size) ==
    (num_rays_per_batch \div (patch_size * patch_size)) * (patch_size * patch_size)

\* num_rays_per_batch as the constructor and set_num_rays_per_batch of the
\* class store it.
StoredRays(class, num_rays_per_batch, patch_size) ==
    IF class = "PatchPixelSampler" THEN RoundedRays(num_rays_per_batch, patch_size)
    ELSE num_rays_per_batch

\* ------------------------------------------------ inputs of the pixel samplers
\* The largest budget passed to a constructor or to set_num_rays_per_batch.
MaxRays == 10
\* The largest budget of a sampler that collates, and the longest list batch.
MaxListRays == 3
MaxListImages == 2
\* The largest batch_size of a direct masked or uniform sample_method call.
MaxBatch == 3

\* (num_images, height, width) of the stacked batches without a mask.
StackedShapes == {<<1, 1, 2>>, <<2, 2, 3>>, <<2, 4, 4>>, <<1, 1, 5>>}

\* (num_images, height, width) of the stacked batches with a mask.
MaskedShapes == {<<2, 1, 2>>}

\* (height, width) of the image at position i of a list batch.
ListShape(i) == IF i % 2 = 1 THEN <<1, 2>> ELSE <<2, 1>>

\* batch["image_idx"]: the camera ids of the images, equal to the batch
\* positions or not.
ImageIdxChoices(n) == {[k \in 1..n |-> k - 1], [k \in 1..n |-> 2 * n + 3 - k]}

\* The true pixels of one image's mask: all, the first only, none.
MaskPatterns(h, w) == {Range(Grid(<<h, w>>)), {<<0, 0>>}, {}}

Batch(image, shapes, image_idx, has_mask, mask_rank, mask) ==
    [image |-> image, shapes |-> shapes, image_idx |-> image_idx,
     has_mask |-> has_mask, mask_rank |-> mask_rank, mask |-> mask]

NoBatch == Batch("none", << >>, << >>, FALSE, 0, << >>)

StackedBatches ==
    UNION {{Batch("tensor", [i \in 1..s[1] |-> <<s[2], s[3]>>], idx, FALSE, 0, << >>) :
               idx \in ImageIdxChoices(s[1])} : s \in StackedShapes}
    \cup
    UNION {{Batch("tensor", [i \in 1..s[1] |-> <<s[2], s[3]>>], idx, TRUE, 4, patterns) :
               idx \in ImageIdxChoices(s[1]),
               patterns \in [1..s[1] -> MaskPatterns(s[2], s[3])]} :
           s \in MaskedShapes}

ListBatchesOf(n) ==
    {Batch("list", [i \in 1..n |-> ListShape(i)], idx, FALSE, 0, << >>) :
        idx \in ImageIdxChoices(n)}
    \cup {Batch("list", [i \in 1..n |-> ListShape(i)], idx, TRUE, rank,
                [i \in 1..n |-> IF all THEN Range(Grid(ListShape(i))) ELSE {<<0, 0>>}]) :
             idx \in ImageIdxChoices(n), rank \in {3, 4}, all \in BOOLEAN}

ListBatches == UNION {ListBatchesOf(n) : n \in 1..MaxListImages}

\* A batch whose "image" is neither a list nor a tensor.
OtherBatches == {Batch("other", <<<<1, 2>>>>, <<0>>, FALSE, 0, << >>)}

ImageBatches == StackedBatches \cup ListBatches \cup OtherBatches

\* The direct sample_method calls made on a stacked batch: all_pixels for the
\* whole index space or for one image's worth of it, a masked draw, or a
\* uniform draw on the smallest index space.
MethodCallsOn(batch) ==
    LET num_images == Len(batch.shapes)
        image_height == batch.shapes[1][1]
        image_width == batch.shapes[1][2]
        pixels == image_height * image_width
    IN  IF batch.has_mask
        THEN {MethodCall(b, num_images, image_height, image_width, StackedMask(batch),
                         FALSE) : b \in 0..MaxBatch}
        ELSE {MethodCall(b, num_images, image_height, image_width, NoMask, TRUE) :
                 b \in {num_images * pixels, pixels}}
             \cup {MethodCall(b, num_images, image_height, image_width, NoMask, FALSE) :
                      b \in {k \in 0..MaxBatch : num_images * pixels <= 2}}

NoCall == MethodCall(0, 0, 0, 0, NoMask, FALSE)

PatchSizes == {1, 2}

VARIABLES
    sampler_class,       \* the class of the pixel sampler object
    patch_size,          \* self.patch_size (0: the class has none)
    num_rays_per_batch,  \* self.num_rays_per_batch
    keep_full_image,     \* self.keep_full_image
    image_batch,         \* the image batch the caller holds
    pixel_pc,            \* "live", or "exited" once exit(-1) has run
    pixel_call,          \* the last operation called and its arguments
    pixel_ret            \* what that operation returned or raised

pixel_vars == <<sampler_class, patch_size, num_rays_per_batch, keep_full_image,
                image_batch, pixel_pc, pixel_call, pixel_ret>>

Called(op, rays, method) == [op |-> op, num_rays_per_batch |-> rays, method |-> method]

\* The state after a sampler of one of the classes has been constructed with
\* a budget of at most max_rays.
InitPixel(max_rays) ==
    /\ sampler_class \in SamplerClasses
    /\ patch_size \in (IF sampler_class = "PatchPixelSampler" THEN PatchSizes ELSE {0})
    /\ keep_full_image \in BOOLEAN
    /\ \E n \in 0..max_rays :
          /\ num_rays_per_batch = StoredRays(sampler_class, n, patch_size)
          /\ pixel_call = Called("__init__", n, NoCall)
    /\ image_batch = NoBatch
    /\ pixel_pc = "live"
    /\ pixel_ret = Failed("none", "none", << >>)

\* An operation ended in `out`: exit(-1) ends the process.
Ended(out) ==
    /\ pixel_ret' = out
    /\ pixel_pc' = IF out.kind = "SystemExit" THEN "exited" ELSE "live"

\* The caller gets its next image batch; what the last call on the previous
\* batch returned is dropped.
LoadImageBatchBody ==
    /\ pixel_pc = "live"
    /\ image_batch' \in ImageBatches
    /\ pixel_call' = Called("load", num_rays_per_batch, NoCall)
    /\ pixel_ret' = Failed("none", "none", << >>)
    /\ UNCHANGED <<sampler_class, patch_size, num_rays_per_batch, keep_full_image,
                   pixel_pc>>

\* set_num_rays_per_batch(n)
SetNumRaysPerBatchBody ==
    /\ pixel_pc = "live"
    /\ \E n \in 0..MaxRays :
          /\ num_rays_per_batch' = StoredRays(sampler_class, n, patch_size)
          /\ pixel_call' = Called("set_num_rays_per_batch", n, NoCall)
          /\ Ended(Outcome("None", "set_num_rays_per_batch", << >>, 0, << >>, {}, << >>))
    /\ UNCHANGED <<sampler_class, patch_size, keep_full_image, image_batch>>

\* sample_method(...), called directly with the sizes and the mask of the
\* stacked batch held.
PixelSampleMethodBody ==
    /\ pixel_pc = "live"
    /\ image_batch.image = "tensor"
    /\ \E c \in MethodCallsOn(image_batch) :
       \E drawn \in SampleMethodOf(sampler_class, c.batch_size, c.num_images,
                                   c.image_height, c.image_width, c.mask, c.all_pixels) :
          /\ pixel_call' = Called("sample_method", num_rays_per_batch, c)
          /\ Ended(Outcome(drawn.kind, "sample_method", drawn.indices, 2, << >>, {}, <<c>>))
    /\ UNCHANGED <<sampler_class, patch_size, num_rays_per_batch, keep_full_image,
                   image_batch>>

\* sample(image_batch), with the collation path it dispatches to.
SampleBody ==
    /\ pixel_pc = "live"
    /\ image_batch.image # "none"
    /\ \E out \in Sample(sampler_class, image_batch, num_rays_per_batch, keep_full_image) :
          /\ pixel_call' = Called("sample", num_rays_per_batch, NoCall)
          /\ Ended(out)
    /\ UNCHANGED <<sampler_class, patch_size, num_rays_per_batch, keep_full_image,
                   image_batch>>

\* A run that builds no pixel sampler of these classes.
NoPixel ==
    /\ sampler_class = "none"
    /\ patch_size = 0
    /\ num_rays_per_batch = 0
    /\ keep_full_image = FALSE
    /\ image_batch = NoBatch
    /\ pixel_pc = "none"
    /\ pixel_call = Called("none", 0, NoCall)
    /\ pixel_ret = Failed("none", "none", << >>)

\* ------------------- collate_image_dataset_batch with the tiered sampler
\* The stacked batches handed to the tiered sampler: every image of the
\* frame the anchors tile, and one image of patch size.
TieredBatches ==
    {Batch("tensor", [i \in 1..NumImages |-> <<FrameHeight, FrameWidth>>],
           Arange(NumImages), FALSE, 0, << >>),
     Batch("tensor", <<<<PatchSize, PatchSize>>>>, <<0>>, FALSE, 0, << >>)}

\* A slice lo:lo+size of a dimension of the given length: torch clamps the
\* stop to the length.
SliceIndices(lo, size, length) == [k \in 1..(Min(lo + size, length) - Min(lo, length)) |-> lo + k - 1]

\* Variant: the row slice taken at the column anchor and the column slice
\* at the row anchor.
FullImagePatchSwapped(image_id, dh, dw, xy_dim, image_height, image_width) ==
    LET rows == SliceIndices(dw, xy_dim, image_height)
        cols == SliceIndices(dh, xy_dim, image_width)
    IN  [r \in 1..Len(rows) |-> [c \in 1..Len(cols) |-> <<image_id, rows[r], cols[c]>>]]

\* collated_batch["full_image"][img_idx, dh:dh+xy_dim, dw:dw+xy_dim]: per
\* entry of the patch, the (image, row, column) of the batch it was read at.
FullImagePatch(image_id, dh, dw, xy_dim, image_height, image_width) ==
    LET rows == SliceIndices(dh, xy_dim, image_height)
        cols == SliceIndices(dw, xy_dim, image_width)
    IN  [r \in 1..Len(rows) |-> [c \in 1..Len(cols) |-> <<image_id, rows[r], cols[c]>>]]

\* The collated batch of the tiered path: "indices" holds the tier lists.
TieredBatch(tiers, full_image, keys, calls) ==
    [kind |-> "batch", path |-> "collate_image_dataset_batch", indices |-> tiers,
     indices_dim |-> 3, image |-> << >>, keys |-> keys, calls |-> calls,
     full_image |-> full_image]

\* collate_image_dataset_batch after sample_method of the tiered sampler
\* returned `drawn`: the five values unpack, "indices" is stored, and with
\* keep_full_image the selected images are cut to the patch at (dh, dw).
\* batch["image"][select] needs one entry of select per image of the batch.
TieredStackedFinish(drawn, batch, keep_full, calls) ==
    LET path == "collate_image_dataset_batch"
        ids == SelectedIds(drawn.select, 1)
    IN  IF ~keep_full THEN TieredBatch(drawn.indices, << >>, {"indices"}, calls)
        ELSE IF Len(drawn.select) # Len(batch.shapes) THEN Failed("IndexError", path, calls)
        ELSE TieredBatch(drawn.indices,
                         [img_idx \in 1..Len(drawn.dh) |->
                             FullImagePatch(ids[img_idx], drawn.dh[img_idx], drawn.dw[img_idx],
                                            drawn.patch_size, batch.shapes[1][1],
                                            batch.shapes[1][2])],
                         {"indices", "full_image", "patch_weights"}, calls)

\* The state after a tiered sampler has been constructed and the caller
\* holds a stacked batch.
InitTieredCollate ==
    /\ InitTiered
    /\ sampler_class = "TieredFeaturePatchPixelSampler"
    /\ patch_size = PatchSize
    /\ keep_full_image \in BOOLEAN
    /\ num_rays_per_batch = RoundedRays(PatchSize * PatchSize, PatchSize)
    /\ pixel_call = Called("__init__", PatchSize * PatchSize, NoCall)
    /\ image_batch \in TieredBatches
    /\ pixel_pc = "live"
    /\ pixel_ret = Failed("none", "none", << >>)

\* sample(image_batch) on the tiered sampler: the stacked path, whose one
\* sample_method call pops the rotation and the anchor queues.
TieredSampleBody ==
    /\ pixel_pc = "live"
    /\ SampleDispatch(image_batch.image) = "collate_image_dataset_batch"
    /\ SampleMethodBody
    /\ LET c == StackedCall(image_batch, num_rays_per_batch)
       IN  /\ call' = CallOf(<<c.batch_size, c.num_images, c.image_height, c.image_width>>,
                             FALSE, 0)
           /\ pixel_call' = Called("sample", num_rays_per_batch, c)
           /\ pixel_ret' = TieredStackedFinish(ret', image_batch, keep_full_image, <<c>>)
    /\ UNCHANGED <<sampler_class, patch_size, num_rays_per_batch, keep_full_image,
                   image_batch, pixel_pc>>

\* ------------------------------------------ KPlanesModel (kplanes.py)
\* Steps a run of get_loss_dict calls may take when training and evaluation
\* calls are mixed, and when every call is a training call.
MaxSteps == 620
MaxTrainSteps == 24000

\* len(self.config.multiscale_res): one compressor per resolution scale.
NumScales == 2

\* self.conv_switch = 500, and the window it alternates with.
ConvSwitchLong == 500
ConvSwitchShort == 100
\* if self.cosine_idx % 3000 == 0
DoublePeriod == 3000
\* self.vol_tv_mult = 0.0001 and the clip at 0.01, in units of 0.0001.
VolTvMultInit == 1
VolTvMultCap == 100

Max(a, b) == IF a >= b THEN a ELSE b

\* config.loss_coefficients
LossCoefficientKeys ==
    {"img", "interlevel", "distortion", "plane_tv", "plane_tv_proposal_net",
     "l1_time_planes", "l1_time_planes_proposal_net", "time_smoothness",
     "time_smoothness_proposal_net"}

\* get_metrics_dict: the keys of the metrics the pipeline hands to get_loss_dict.
MetricsDictKeys(training, is4d) ==
    {"psnr"}
    \cup (IF training
          THEN {"interlevel", "distortion", "plane_tv", "plane_tv_proposal_net"}
               \cup (IF is4d
                     THEN {"l1_time_planes", "l1_time_planes_proposal_net",
                           "time_smoothness", "time_smoothness_proposal_net"}
                     ELSE {})
          ELSE {})

\* Variant: the window length never alternates.
NextConvSwitchStuck(switch) == ConvSwitchLong

\* self.conv_switch = 100 if self.conv_switch == 500 else 500
NextConvSwitch(switch) == IF switch = ConvSwitchLong THEN ConvSwitchShort ELSE ConvSwitchLong

\* Variant: requires_grad set from the flag after its flip.
FrozenFlagFlipped(train_bool) == ~train_bool

\* param.requires_grad = self.conv_train_bool, with the flag not yet flipped
FrozenFlag(train_bool) == train_bool

\* Variant: the doubling without the clip.
DoubleUnclipped(mult) == mult * 2

\* np.clip(self.vol_tv_mult * 2, 0, 0.01)
DoubleClipped(mult) == Max(0, Min(mult * 2, VolTvMultCap))

\* if self.cosine_idx % 3000 == 0
DoublingDue(idx) == idx % DoublePeriod = 0

\* Variant: the classifier term dropped from the else branch.
AdversarialKeysNoElse(train_bool) ==
    IF train_bool THEN {"vol_tvs", "temporal_simm"} ELSE {}

\* if self.conv_train_bool: vol_tvs, temporal_simm; else: conv_mlp
AdversarialKeys(train_bool) ==
    IF train_bool THEN {"vol_tvs", "temporal_simm"} ELSE {"conv_mlp"}

\* loss_dict = {"rgb": ...}: what every call starts from.
BaseLossKeys == {"rgb"}

\* The keys the training branch adds to loss_dict.
TrainingLossKeys(metrics_keys, train_bool) ==
    (LossCoefficientKeys \cap metrics_keys) \cup AdversarialKeys(train_bool)
        \cup {"camera_delts", "local_vol_tvs", "time_masks"}

\* Variant: the training branch taken whatever the mode.
TrainingGateAlways(training) == TRUE

\* if self.training:
TrainingGate(training) == training

VARIABLES
    cosine_idx,             \* self.cosine_idx
    vol_tv_mult,            \* self.vol_tv_mult, in units of 0.0001
    conv_vol_tv_mult,       \* self.conv_vol_tv_mult, in units of 0.0001
    conv_switch,            \* self.conv_switch
    conv_train_bool,        \* self.conv_train_bool
    conv_train_idx,         \* self.conv_train_idx
    conv_requires_grad,     \* requires_grad of the parameters of conv_comp[m]
    loss_mode,              \* self.training in the last get_loss_dict call
    loss_keys               \* the keys of the last returned loss_dict

model_vars == <<cosine_idx, vol_tv_mult, conv_vol_tv_mult, conv_switch, conv_train_bool,
                conv_train_idx, conv_requires_grad, loss_mode, loss_keys>>

\* ------------------------------------------ KPlanesModel.get_outputs
\* Cameras with a pose delta (153 in the source) and rays per bundle.
NumCameras == 2
MaxBundleRays == 2

\* torch.clip(rot_angs, -0.01, 0.01), in units of 0.005 radians, and
\* torch.clip(selected_delts, -0.2, 0.2), in units of 0.1.
RotClip == 2
PosClip == 2
\* A stored angle of 5.0 radians, in units of 0.005.
LargeAngle == 1000

\* Variant: the value passed through unclipped.
ClipUnbounded(x, lo, hi) == x

\* torch.clip(x, lo, hi) of one entry
Clip(x, lo, hi) == IF x < lo THEN lo ELSE IF x > hi THEN hi ELSE x

\* get_rot_mat_torch for one camera: Rz(roll) Ry(yaw) Rx(pitch), kept as the
\* angles it is built from.
RotMat(roll, yaw, pitch) == [roll |-> roll, yaw |-> yaw, pitch |-> pitch]

\* R = self.get_rot_mat_torch(torch.clip(rot_angs, -0.01, 0.01)): one matrix
\* per camera; rot_angs has a row per angle and a column per camera.
GetRotMatTorch(rot_angs) ==
    [cam \in 1..Len(rot_angs[1]) |->
        RotMat(Clip(rot_angs[1][cam], -RotClip, RotClip),
               Clip(rot_angs[2][cam], -RotClip, RotClip),
               Clip(rot_angs[3][cam], -RotClip, RotClip))]

\* A per-ray field of the ray bundle: None, or one entry per ray.
NoField == [present |-> FALSE, ids |-> << >>]

Field(ids) == [present |-> TRUE, ids |-> ids]

\* What .squeeze() on the field gives: the entries, or the AttributeError of
\* None.squeeze().
Squeezed(kind, ids) == [kind |-> kind, ids |-> ids]

\* Variant: a missing camera-index field read as camera 0 for every ray.
SqueezedCameraIndicesDefaulted(bundle) ==
    IF bundle.camera_indices.present
    THEN Squeezed("indices", bundle.camera_indices.ids)
    ELSE Squeezed("indices", [k \in 1..Len(bundle.origins) |-> 0])

\* ray_bundle.camera_indices.squeeze(): the camera id of every ray.
SqueezedCameraIndices(bundle) ==
    IF bundle.camera_indices.present
    THEN Squeezed("indices", bundle.camera_indices.ids)
    ELSE Squeezed("AttributeError", << >>)

\* matmul(selected_R, directions.unsqueeze(-1)): the direction of ray k under
\* the matrix of its camera, kept as the pair it is the product of.
Rotated(R, cams, directions) ==
    [k \in 1..Len(directions) |-> [rot |-> R[cams[k] + 1], dir |-> directions[k]]]

\* ray_bundle.origins + torch.clip(selected_delts, -0.2, 0.2)
Displaced(pos_diff, cams, origins) ==
    [k \in 1..Len(origins) |->
        [x \in 1..3 |-> origins[k][x] + Clip(pos_diff[cams[k] + 1][x], -PosClip, PosClip)]]

\* The rank of new_dirs after .squeeze(): a bundle of one ray loses its
\* ray dimension.
SqueezedRank(num_rays) == IF num_rays = 1 THEN 1 ELSE 2

\* The angles and the offset of one camera the model draws from: the initial
\* zeros, values inside the clip range and values far outside it.
AngleChoices == {<<0, 0, 0>>, <<LargeAngle, -3, 1>>}
OffsetChoices == {<<0, 0, 0>>, <<1, -5, 3>>}

\* self.camera_pose_delts: [rot_angs (3 x cameras), pos_diff (cameras x 3)]
PoseDelts(angles, offsets) ==
    [rot_angs |-> [a \in 1..3 |-> [cam \in 1..Len(angles) |-> angles[cam][a]]],
     pos_diff |-> offsets]

PoseDeltChoices ==
    {PoseDelts(angles, offsets) :
        angles \in [1..NumCameras -> AngleChoices], offsets \in [1..NumCameras -> OffsetChoices]}

\* The ray bundles handed to get_outputs: some rays, each with its camera id
\* or the field missing, with or without times.
Bundle(num_rays, camera_indices, has_times) ==
    [origins |-> [k \in 1..num_rays |-> <<10 * k, 0, -k>>],
     directions |-> [k \in 1..num_rays |-> <<0, k, 1>>],
     directions_rank |-> 2,
     camera_indices |-> camera_indices,
     has_times |-> has_times]

RayBundles ==
    UNION {{Bundle(n, field, has_times) :
               field \in {Field(ids) : ids \in [1..n -> 0..(NumCameras - 1)]} \cup {NoField},
               has_times \in BOOLEAN} :
           n \in 1..MaxBundleRays}

NoBundle == Bundle(0, NoField, FALSE)

\* What get_outputs returned or raised: the bundle as it was on entry, the
\* matrix applied to every ray, the modules invoked and the output keys.
OutputsOf(kind, entry, rotations, density_fns, invoked, keys) ==
    [kind |-> kind, entry |-> entry, rotations |-> rotations, density_fns |-> density_fns,
     invoked |-> invoked, keys |-> keys]

\* config.num_proposal_iterations proposal depths, and the lists kept for
\* the losses when training.
OutputKeys(training) ==
    {"rgb", "accumulation", "depth", "prop_depth_0", "prop_depth_1"}
    \cup (IF training THEN {"weights_list", "ray_samples_list"} ELSE {})

VARIABLES
    camera_pose_delts,   \* self.camera_pose_delts
    ray_bundle,          \* the ray bundle the caller holds
    outputs              \* what the last get_outputs call returned or raised

render_vars == <<camera_pose_delts, ray_bundle, outputs>>

NoOutputs == OutputsOf("none", NoBundle, << >>, "none", << >>, {})

\* The state after populate_modules, with the pose deltas some optimizer
\* steps have left, and a first ray bundle.
InitRender ==
    /\ camera_pose_delts \in PoseDeltChoices
    /\ ray_bundle \in RayBundles
    /\ outputs = NoOutputs

\* get_outputs(ray_bundle), on a bundle not rendered yet.
GetOutputsBody ==
    /\ outputs.kind = "none"
    /\ \E training \in BOOLEAN :
       LET density_fns == IF ray_bundle.has_times THEN "partial(times)" ELSE "plain"
           R == GetRotMatTorch(camera_pose_delts.rot_angs)
           squeezed == SqueezedCameraIndices(ray_bundle)
           cams == squeezed.ids
       IN  IF squeezed.kind # "indices"
           THEN /\ outputs' = OutputsOf(squeezed.kind, ray_bundle, << >>, density_fns,
                                       << >>, {})
                /\ UNCHANGED ray_bundle
           ELSE /\ ray_bundle' =
                       [ray_bundle EXCEPT
                           !.origins = Displaced(camera_pose_delts.pos_diff, cams, @),
                           !.directions = Rotated(R, cams, @),
                           !.directions_rank = SqueezedRank(Len(ray_bundle.origins))]
                /\ outputs' = OutputsOf("outputs", ray_bundle,
                                       [k \in 1..Len(cams) |-> R[cams[k] + 1]], density_fns,
                                       <<"proposal_sampler", "field">>, OutputKeys(training))
    /\ UNCHANGED camera_pose_delts

\* The caller builds its next ray bundle.
LoadRayBundleBody ==
    /\ outputs.kind # "none"
    /\ ray_bundle' \in RayBundles
    /\ outputs' = NoOutputs
    /\ UNCHANGED camera_pose_delts

\* A run that renders nothing.
NoRender ==
    /\ camera_pose_delts = PoseDelts(<< >>, << >>)
    /\ ray_bundle = NoBundle
    /\ outputs = NoOutputs

\* ------------------------------------------ plane regularizers
\* Resolution scales of the field, and the height and width of a plane of
\* the first scale; each further scale is one column wider.
GridScales == 2
GridHeight == 2
GridWidth == 2
\* Channels of plane 0 (num_comps), and the further channels of planes 2, 4, 5.
NumComps == 1
AuxComps == 1
\* Planes of a 4D grid: every pairing and triple of the axes, ids 0..8.
NumPlanes == 9

RECURSIVE GCD(_, _)
GCD(a, b) == IF b = 0 THEN a ELSE GCD(b, a % b)

Abs(x) == IF x < 0 THEN -x ELSE x

\* The float results are kept exactly, as fractions in lowest terms.
Frac(n, d) == [num |-> n \div GCD(Abs(n), d), den |-> d \div GCD(Abs(n), d)]

FracAdd(a, b) == Frac(a.num * b.den + b.num * a.den, a.den * b.den)

FracDiv(a, k) == Frac(a.num, a.den * k)

\* The sum of the values seq[lo..hi].
RECURSIVE RangeSum(_, _, _)
RangeSum(seq, lo, hi) == IF lo > hi THEN 0 ELSE IF lo = hi THEN seq[lo] ELSE RangeSum(seq, lo, (lo + hi) \div 2) + RangeSum(seq, ((lo + hi) \div 2) + 1, hi)

RECURSIVE FracSum(_, _)
FracSum(S, f) == IF S = {} THEN Frac(0, 1) ELSE LET x == CHOOSE y \in S : TRUE IN FracAdd(f[x], FracSum(S \ {x}, f))

\* tensor.mean() of the values of seq.
Mean(seq) == Frac(RangeSum(seq, 1, Len(seq)), Len(seq))

\* The i-th (channel, row, column) of a tensor of h rows and w columns.
CellAt(i, h, w) == <<((i - 1) \div (h * w)) + 1, (((i - 1) \div w) % h) + 1, ((i - 1) % w) + 1>>

Square(x) == x * x

\* _, h, w = t.shape, and the channel count
PlaneChannels(t) == Len(t)
PlaneHeight(t) == Len(t[1])
PlaneWidth(t) == Len(t[1][1])

\* torch.square(t[..., :, 1:] - t[..., :, : w - 1]).mean()
WTv(t) ==
    Mean([i \in 1..(PlaneChannels(t) * PlaneHeight(t) * (PlaneWidth(t) - 1)) |->
            LET x == CellAt(i, PlaneHeight(t), PlaneWidth(t) - 1)
            IN  Square(t[x[1]][x[2]][x[3] + 1] - t[x[1]][x[2]][x[3]])])

\* torch.square(t[..., 1:, :] - t[..., : h - 1, :]).mean()
HTv(t) ==
    Mean([i \in 1..(PlaneChannels(t) * (PlaneHeight(t) - 1) * PlaneWidth(t)) |->
            LET x == CellAt(i, PlaneHeight(t) - 1, PlaneWidth(t))
            IN  Square(t[x[1]][x[2] + 1][x[3]] - t[x[1]][x[2]][x[3]])])

ComputePlaneTv(t, only_w) == IF only_w THEN WTv(t) ELSE FracAdd(HTv(t), WTv(t))

\* A variant that keeps every channel of the plane.
WholePlane(grid, num_comps) == grid

\* grid[:num_comps]
FirstComps(grid, num_comps) == SubSeq(grid, 1, Min(num_comps, Len(grid)))

\* if len(grids) == 3: spatial_planes = {0, 1, 2} else {0, 1, 3, 6, 7, 8}
SpatialPlanes(grids) ==
    IF Cardinality(DOMAIN grids) = 3 THEN {0, 1, 2} ELSE {0, 1, 3, 6, 7, 8}

\* The summand of space_tv_loss for plane grid_id of one scale.
PlaneTvTerm(grids, grid_id, num_comps) ==
    IF grid_id \in SpatialPlanes(grids)
    THEN ComputePlaneTv(grids[grid_id], FALSE)
    ELSE ComputePlaneTv(FirstComps(grids[grid_id], num_comps), TRUE)

\* The (scale, plane) pairs the loops visit: num_planes is their number.
VisitedPlanes(multi_res_grids, plane_ids) ==
    {x \in (1..Len(multi_res_grids)) \X plane_ids : x[2] \in DOMAIN multi_res_grids[x[1]]}

\* num_comps = multi_res_grids[0][0].shape[0]
NumCompsOf(multi_res_grids) == PlaneChannels(multi_res_grids[1][0])

SpaceTvLoss(multi_res_grids) ==
    LET visited == VisitedPlanes(multi_res_grids, 0..(NumPlanes - 1))
    IN  FracDiv(FracSum(visited,
                        [x \in visited |-> PlaneTvTerm(multi_res_grids[x[1]], x[2],
                                                       NumCompsOf(multi_res_grids))]),
                Cardinality(visited))

\* time_planes = [2, 4, 5, 6, 7, 8]
TimePlanes == {2, 4, 5, 6, 7, 8}

\* torch.abs(grids[grid_id][:num_comps]).mean()
AbsMean(t) ==
    Mean([i \in 1..(PlaneChannels(t) * PlaneHeight(t) * PlaneWidth(t)) |->
            LET x == CellAt(i, PlaneHeight(t), PlaneWidth(t))
            IN  Abs(t[x[1]][x[2]][x[3]])])

L1TimePlanes(multi_res_grids) ==
    LET visited == VisitedPlanes(multi_res_grids, TimePlanes)
    IN  FracDiv(FracSum(visited,
                        [x \in visited |-> AbsMean(FirstComps(multi_res_grids[x[1]][x[2]],
                                                              NumCompsOf(multi_res_grids)))]),
                Cardinality(visited))

\* Planes 2, 4 and 5 carry auxiliary channels after the first num_comps.
ChannelsOfPlane(grid_id) == IF grid_id \in {2, 4, 5} THEN NumComps + AuxComps ELSE NumComps

ScaleWidth(scale) == GridWidth + scale - 1

\* Contents a field can hold: all ones, all zeros, a ramp and a sign pattern.
GridFills == {"ones", "zeros", "ramp", "signed"}

FillValue(fill, scale, grid_id, c, r, k) ==
    CASE fill = "ones" -> 1
      [] fill = "zeros" -> 0
      [] fill = "ramp" -> grid_id + 2 * c + r * r + 3 * k * scale
      [] OTHER -> IF (c + r + k) % 2 = 0 THEN grid_id + 1 ELSE -(grid_id + 1)

FilledGrids(fill) ==
    [scale \in 1..GridScales |->
        [grid_id \in 0..(NumPlanes - 1) |->
            [c \in 1..ChannelsOfPlane(grid_id) |->
                [r \in 1..GridHeight |->
                    [k \in 1..ScaleWidth(scale) |-> FillValue(fill, scale, grid_id, c, r, k)]]]]]

\* Values an optimizer step can leave in an entry.
UpdateValues == {-2, 3}

NoUpdate == [kind |-> "none", scale |-> 0, plane |-> 0, channel |-> 0]

\* An entry of channel `channel` (counted from 0) of a plane was rewritten.
Update(scale, grid_id, channel) == [kind |-> "update", scale |-> scale, plane |-> grid_id, channel |-> channel]

NoMetrics == [kind |-> "none", plane_tv |-> Frac(0, 1), l1_time_planes |-> Frac(0, 1)]

Metrics(plane_tv, l1) == [kind |-> "metrics", plane_tv |-> plane_tv, l1_time_planes |-> l1]

VARIABLES
    field_grids,            \* [g.plane_coefs for g in self.field.grids]
    metrics_dict,           \* plane_tv and l1_time_planes of the last metrics_dict
    grid_update,            \* the entry the last optimizer step rewrote
    train_phase             \* what the training iteration does next

plane_vars == <<field_grids, metrics_dict, grid_update, train_phase>>

InitPlanes ==
    /\ field_grids \in {FilledGrids(fill) : fill \in GridFills}
    /\ metrics_dict = NoMetrics
    /\ grid_update = NoUpdate
    /\ train_phase = "metrics"

\* get_metrics_dict in training with a 4D grid: the two regularizers of the
\* field's grids.
GetMetricsDictBody ==
    /\ train_phase = "metrics"
    /\ metrics_dict' = Metrics(SpaceTvLoss(field_grids), L1TimePlanes(field_grids))
    /\ train_phase' = "step"
    /\ UNCHANGED <<field_grids, grid_update>>

\* The optimizer rewrites one entry of one plane between two iterations.
OptimizerStepBody ==
    /\ train_phase = "step"
    /\ grid_update = NoUpdate
    /\ \E scale \in 1..GridScales, grid_id \in 0..(NumPlanes - 1), v \in UpdateValues :
        \E c \in 1..ChannelsOfPlane(grid_id), r \in 1..GridHeight, k \in 1..ScaleWidth(scale) :
            /\ field_grids[scale][grid_id][c][r][k] # v
            /\ field_grids' = [field_grids EXCEPT ![scale][grid_id][c][r][k] = v]
            /\ grid_update' = Update(scale, grid_id, c - 1)
    /\ train_phase' = "metrics"
    /\ UNCHANGED metrics_dict

NoPlanes ==
    /\ field_grids = << >>
    /\ metrics_dict = NoMetrics
    /\ grid_update = NoUpdate
    /\ train_phase = "none"

vars == <<tiered_vars, model_vars, pixel_vars, render_vars, plane_vars>>

\* The state after populate_modules.
InitModel ==
    /\ cosine_idx = 0
    /\ vol_tv_mult = VolTvMultInit
    /\ conv_vol_tv_mult = VolTvMultInit
    /\ conv_switch = ConvSwitchLong
    /\ conv_train_bool = FALSE
    /\ conv_train_idx = 0
    /\ conv_requires_grad = [m \in 1..NumScales |-> TRUE]
    /\ loss_mode = "none"
    /\ loss_keys = {}

\* get_loss_dict, for the value of self.training it runs under.
GetLossDict(training, max_steps) ==
    /\ cosine_idx < max_steps
    /\ cosine_idx' = cosine_idx + 1
    /\ loss_mode' = IF training THEN "train" ELSE "eval"
    /\ IF TrainingGate(training)
       THEN \E is4d \in BOOLEAN :
            LET idx == (conv_train_idx + 1) % conv_switch
                wrapped == idx = 0
                train_bool == IF wrapped THEN ~conv_train_bool ELSE conv_train_bool
                due == DoublingDue(cosine_idx + 1)
            IN  /\ conv_train_idx' = idx
                /\ conv_requires_grad' =
                       IF wrapped
                       THEN [m \in 1..NumScales |-> FrozenFlag(conv_train_bool)]
                       ELSE conv_requires_grad
                /\ conv_switch' = IF wrapped THEN NextConvSwitch(conv_switch) ELSE conv_switch
                /\ conv_train_bool' = train_bool
                /\ vol_tv_mult' = IF due THEN DoubleClipped(vol_tv_mult) ELSE vol_tv_mult
                /\ conv_vol_tv_mult' =
                       IF due THEN DoubleClipped(conv_vol_tv_mult) ELSE conv_vol_tv_mult
                /\ loss_keys' = BaseLossKeys
                                    \cup TrainingLossKeys(MetricsDictKeys(training, is4d),
                                                          train_bool)
       ELSE /\ loss_keys' = BaseLossKeys
            /\ UNCHANGED <<vol_tv_mult, conv_vol_tv_mult, conv_switch, conv_train_bool,
                           conv_train_idx, conv_requires_grad>>

\* The sampler of a run that builds no model, and the model of a run that
\* builds no sampler.
NoModel ==
    /\ cosine_idx = 0
    /\ vol_tv_mult = 0
    /\ conv_vol_tv_mult = 0
    /\ conv_switch = 0
    /\ conv_train_bool = FALSE
    /\ conv_train_idx = 0
    /\ conv_requires_grad = << >>
    /\ loss_mode = "none"
    /\ loss_keys = {}

NoSampler ==
    /\ select_idxs = << >>
    /\ dh_lst = << >>
    /\ dw_lst = << >>
    /\ indices = << >>
    /\ sampler_pc = "none"
    /\ call = CallOf(<<0, 0, 0, 0>>, FALSE, 0)
    /\ ret = Raised("none")
    /\ sel_used = << >>
    /\ dh_used = << >>
    /\ dw_used = << >>
    /\ ncalls = 0

TieredSampleMethod == SampleMethodBody /\ UNCHANGED <<model_vars, pixel_vars, render_vars, plane_vars>>

TieredSampleMethodMasked == SampleMethodMaskedBody /\ UNCHANGED <<model_vars, pixel_vars, render_vars, plane_vars>>

NextTiered == TieredSampleMethod \/ TieredSampleMethodMasked

InitTieredRun == NoRender /\ NoPlanes /\ NoModel /\ NoPixel /\ InitTiered

\* The tiered sampler under any sequence of sample_method calls.
SpecTiered == InitTieredRun /\ [][NextTiered]_vars

TieredSample == TieredSampleBody /\ UNCHANGED <<model_vars, render_vars, plane_vars>>

InitTieredCollateRun == NoRender /\ NoPlanes /\ NoModel /\ InitTieredCollate

\* The tiered sampler under sample calls on the stacked batch its caller holds.
SpecTieredCollate == InitTieredCollateRun /\ [][TieredSample]_vars

\* A frame narrower than it is high, so that the column queue is shorter
\* than the row queue (1280 against 720 in the source).
NarrowFrameWidth == 16

InitQueuesRun == NoRender /\ NoPlanes /\ NoModel /\ NoPixel /\ InitTieredOn(FrameHeight, NarrowFrameWidth)

QueuesSampleMethod == SampleMethodOn(FrameHeight, NarrowFrameWidth) /\ UNCHANGED <<model_vars, pixel_vars, render_vars, plane_vars>>

\* The tiered sampler under unmasked calls, its two queues of unequal length.
SpecQueues == InitQueuesRun /\ [][QueuesSampleMethod]_vars

TrainStep == GetLossDict(TRUE, MaxSteps) /\ UNCHANGED <<tiered_vars, pixel_vars, render_vars, plane_vars>>

EvalStep == GetLossDict(FALSE, MaxSteps) /\ UNCHANGED <<tiered_vars, pixel_vars, render_vars, plane_vars>>

NextLoss == TrainStep \/ EvalStep

\* The model under any mix of training and evaluation get_loss_dict calls.
InitModelRun == NoRender /\ NoPlanes /\ NoSampler /\ NoPixel /\ InitModel

SpecLoss == InitModelRun /\ [][NextLoss]_vars

TrainRunStep == GetLossDict(TRUE, MaxTrainSteps) /\ UNCHANGED <<tiered_vars, pixel_vars, render_vars, plane_vars>>

\* The model under training calls only.
SpecTrain == InitModelRun /\ [][TrainRunStep]_vars

\* Steps of a run that mixes a few evaluation calls into the training calls,
\* and the number of evaluation calls of such a run.
MaxMixSteps == 3010
MaxEvalCalls == 2

\* The training calls made so far, modulo the 600-call period of the phase
\* machine: every training call advances the position by one.
PhasePosition == IF conv_train_bool THEN ConvSwitchLong + conv_train_idx ELSE conv_train_idx

\* The calls that did not advance the phase machine: the evaluation calls.
EvalCalls == (cosine_idx - PhasePosition) % (ConvSwitchLong + ConvSwitchShort)

TrainMixStep == GetLossDict(TRUE, MaxMixSteps) /\ UNCHANGED <<tiered_vars, pixel_vars, render_vars, plane_vars>>

EvalMixStep == EvalCalls < MaxEvalCalls /\ GetLossDict(FALSE, MaxMixSteps) /\ UNCHANGED <<tiered_vars, pixel_vars, render_vars, plane_vars>>

NextMix == TrainMixStep \/ EvalMixStep

\* The model under a long run of training calls with a few evaluation calls
\* at any point of it.
SpecMix == InitModelRun /\ [][NextMix]_vars

GetOutputs == GetOutputsBody /\ UNCHANGED <<tiered_vars, model_vars, pixel_vars, plane_vars>>

LoadRayBundle == LoadRayBundleBody /\ UNCHANGED <<tiered_vars, model_vars, pixel_vars, plane_vars>>

NextRender == GetOutputs \/ LoadRayBundle

InitRenderRun == NoPlanes /\ NoSampler /\ NoModel /\ NoPixel /\ InitRender

\* The model under get_outputs calls, each on a fresh ray bundle.
SpecRender == InitRenderRun /\ [][NextRender]_vars

GetMetricsDict == GetMetricsDictBody /\ UNCHANGED <<tiered_vars, model_vars, pixel_vars, render_vars>>

OptimizerStep == OptimizerStepBody /\ UNCHANGED <<tiered_vars, model_vars, pixel_vars, render_vars>>

NextPlanes == GetMetricsDict \/ OptimizerStep

InitPlanesRun == NoRender /\ NoSampler /\ NoModel /\ NoPixel /\ InitPlanes

\* Training iterations on a field: the regularizers of get_metrics_dict, then
\* an optimizer step on the planes, then the regularizers again.
SpecPlanes == InitPlanesRun /\ [][NextPlanes]_vars

SetNumRaysPerBatch == SetNumRaysPerBatchBody /\ UNCHANGED <<tiered_vars, model_vars, render_vars, plane_vars>>

LoadImageBatch == LoadImageBatchBody /\ UNCHANGED <<tiered_vars, model_vars, render_vars, plane_vars>>

SampleMethodCall == PixelSampleMethodBody /\ UNCHANGED <<tiered_vars, model_vars, render_vars, plane_vars>>

SampleCall == SampleBody /\ UNCHANGED <<tiered_vars, model_vars, render_vars, plane_vars>>

InitRaysRun == NoRender /\ NoPlanes /\ NoSampler /\ NoModel /\ InitPixel(MaxRays)

\* The ray budget of a pixel sampler under any sequence of
\* set_num_rays_per_batch calls.
SpecRays == InitRaysRun /\ [][SetNumRaysPerBatch]_vars

InitPixelRun == NoRender /\ NoPlanes /\ NoSampler /\ NoModel /\ InitPixel(MaxListRays)

NextSample == LoadImageBatch \/ SampleCall

\* A pixel sampler under any sequence of sample calls on any image batches.
SpecSample == InitPixelRun /\ [][NextSample]_vars

NextMethod == LoadImageBatch \/ SampleMethodCall

\* A pixel sampler under any sequence of direct sample_method calls.
SpecMethod == InitPixelRun /\ [][NextMethod]_vars

\* ======================================================================
\* Properties of the tiered sampler (checked under SpecTiered)
\* ======================================================================

\* The step is an unmasked sample_method call: only such a call pops the queues.
SampledStep == <<select_idxs, dh_lst, dw_lst>>' # <<select_idxs, dh_lst, dw_lst>>

\* The row and column anchors returned since the queues were last filled.
RowsUsed == [i \in 1..Len(dh_used) |-> dh_used[i][1]]
ColsUsed == [i \in 1..Len(dw_used) |-> dw_used[i][1]]

Distinct(seq) == \A i, j \in 1..Len(seq) : i # j => seq[i] # seq[j]

\* height/patch_size and width/patch_size
RowStarts == FrameHeight \div PatchSize
ColStarts == FrameWidth \div PatchSize

\* ---- C1 ----
\* The ids selected since the rotation was filled are pairwise distinct and,
\* with the ids still queued, are exactly 0..NumImages-1; the k-th call after
\* a fill is the k-th of its cycle, so once the rotation is empty every id
\* has been selected exactly once in the cycle.
C1_CycleState ==
    /\ Distinct(sel_used)
    /\ Range(sel_used) \cap Range(select_idxs) = {}
    /\ Range(sel_used) \cup Range(select_idxs) = 0..(NumImages - 1)
    /\ Len(sel_used) + Len(select_idxs) = NumImages
    /\ (ncalls > 0 /\ ncalls < GridTiles) => Len(sel_used) = ((ncalls - 1) % NumImages) + 1

\* C1: sample_method (no mask, num_to_select = 1) draws the images without
\* replacement from a shuffled rotation of the image ids: every cycle of
\* NumImages calls after construction selects each id exactly once, and the
\* rotation is refilled in a call exactly when it holds fewer than
\* num_to_select ids at the start of that call.
C1_Rotation ==
    /\ []C1_CycleState
    /\ [][SampledStep =>
            ((Len(sel_used') <= Len(sel_used)) <=> (Len(select_idxs) < 1))]_vars

\* A whole cycle has run: the rotation is empty and every id was selected.
C1_Witness ==
    /\ ret.kind = "indices"
    /\ select_idxs = << >>
    /\ Len(sel_used) = NumImages
    /\ ncalls > NumImages

\* ---- C2 ----
\* C2 as stated: over height/patch_size consecutive calls that start on a
\* freshly filled row queue, the row anchors returned are pairwise distinct
\* and form {phase + k*patch_size : k = 0 .. height/patch_size - 1} for one
\* phase in [0, patch_size); likewise the column anchors with the width.  The
\* window is complete in the call that follows the height/patch_size - 1
\* calls which emptied the queue.
C2_Original ==
    [][/\ (SampledStep /\ Len(dh_lst[1]) = 0 /\ Len(dh_used) = RowStarts - 1) =>
            /\ Distinct(RowsUsed \o <<dh_used'[1][1]>>)
            /\ \E phase \in 0..(PatchSize - 1) :
                  Range(RowsUsed) \cup {dh_used'[1][1]}
                      = {phase + k * PatchSize : k \in 0..(RowStarts - 1)}
       /\ (SampledStep /\ Len(dw_lst[1]) = 0 /\ Len(dw_used) = ColStarts - 1) =>
            /\ Distinct(ColsUsed \o <<dw_used'[1][1]>>)
            /\ \E phase \in 0..(PatchSize - 1) :
                  Range(ColsUsed) \cup {dw_used'[1][1]}
                      = {phase + k * PatchSize : k \in 0..(ColStarts - 1)}]_vars

\* The anchors of one fill, returned and still queued: starts - 1 of them,
\* pairwise distinct, phase + k*patch_size for one phase.
OneFill(used, queued, starts) ==
    /\ Len(used) + Len(queued) = starts - 1
    /\ Distinct(used \o queued)
    /\ \E phase \in 0..(PatchSize - 1) :
          Range(used) \cup Range(queued)
              = {phase + k * PatchSize : k \in 0..(starts - 2)}

\* C2 (amended): a fill of the row queue holds height/patch_size - 1
\* anchors, so over the height/patch_size - 1 consecutive calls that start on
\* a freshly filled row queue the row anchors returned are pairwise distinct
\* and form {phase + k*patch_size : k = 0 .. height/patch_size - 2} for one
\* phase in [0, patch_size); likewise the column queue with the width.
C2_Amended ==
    /\ OneFill(RowsUsed, dh_lst[1], RowStarts)
    /\ OneFill(ColsUsed, dw_lst[1], ColStarts)

\* A row fill has been used up, anchor by anchor.
C2_Witness ==
    /\ ret.kind = "indices"
    /\ Len(dh_lst[1]) = 0
    /\ Len(dh_used) = RowStarts - 1
    /\ Len(dh_used) >= 2

\* ---- C3 ----
\* The tile positions (row anchor, column anchor) of the calls made since
\* both queues were last filled, newest first.
RecentCount == Min(Len(dh_used), Len(dw_used))

RecentTile(i) == <<dh_used[Len(dh_used) - i][1], dw_used[Len(dw_used) - i][1]>>

RecentTiles == {RecentTile(i) : i \in 0..(RecentCount - 1)}

\* The number of (row anchor, column anchor) pairs of the patch_size grid.
GridPairs == (RowStarts - 1) * (ColStarts - 1)

\* C3 as stated: every tile position of the grid is sampled once before any
\* tile position is sampled a second time; so none of the first GridPairs
\* calls after construction samples a tile position an earlier call sampled.
C3_Original ==
    [][(SampledStep /\ ncalls < GridPairs) =>
            <<ret'.dh[1], ret'.dw[1]>> \notin RecentTiles]_vars

\* C3 (amended): across the calls served by one fill of the anchor queues
\* the sampled tile positions are pairwise distinct, one per call, and no
\* two of them share a row anchor or a column anchor; such a cycle samples
\* at most min(rows, columns) tile positions, not every pair of the grid.
C3_Amended ==
    /\ \A i, j \in 0..(RecentCount - 1) :
          i # j => /\ RecentTile(i)[1] # RecentTile(j)[1]
                   /\ RecentTile(i)[2] # RecentTile(j)[2]
    /\ Cardinality(RecentTiles) = RecentCount
    /\ RecentCount <= Min(RowStarts - 1, ColStarts - 1)

\* Both queues are used up: the cycle sampled its tiles, fewer than the grid has.
C3_Witness ==
    /\ ret.kind = "indices"
    /\ Len(dh_lst[1]) = 0
    /\ Len(dw_lst[1]) = 0
    /\ Cardinality(RecentTiles) >= 2
    /\ Cardinality(RecentTiles) < GridPairs

\* ---- C4 ----
CeilDiv(a, b) == (a + b - 1) \div b

\* Tier k as the claim states it, for image s and anchors dh, dw.
ClaimedTier(k, s, dh, dw) ==
    LET d == PatchSize \div (2 ^ k)
    IN  [j \in 1..(d * d) |->
            <<s, CeilDiv(dh, 2 ^ k) + ((j - 1) \div d), CeilDiv(dw, 2 ^ k) + ((j - 1) % d)>>]

\* C4: an unmasked call returns 4 index lists, the un-halved anchors, the
\* selection mask with one entry per image id and patch_size; tier k is the
\* d_k*d_k triples (s, ceil(dh/2^k) + j // d_k, ceil(dw/2^k) + j % d_k),
\* j = 0 .. d_k^2 - 1 in that order, d_k = patch_size // 2^k, for the one
\* selected image s and the anchors (dh, dw) of this call.
C4_TierLists ==
    ret.kind = "indices" =>
        LET s == sel_used[Len(sel_used)]
        IN  /\ Len(ret.indices) = 4
            /\ ret.patch_size = PatchSize
            /\ ret.dh = dh_used[Len(dh_used)]
            /\ ret.dw = dw_used[Len(dw_used)]
            /\ Len(ret.select) = NumImages
            /\ \A i \in 1..NumImages : ret.select[i] <=> (i - 1 = s)
            /\ \A k \in 0..3 : ret.indices[k + 1] = ClaimedTier(k, s, ret.dh[1], ret.dw[1])

\* A call whose anchors are both odd, so that the rounding matters.
C4_Witness ==
    /\ ret.kind = "indices"
    /\ ret.dh[1] % 2 = 1
    /\ ret.dw[1] % 2 = 1
    /\ Len(ret.indices[1]) = PatchSize * PatchSize

\* ---- C5 ----
\* C5: a sample_method call with a tensor mask never returns an index
\* result: it ends in the base draw's insufficient-mask error (exactly when
\* batch_size exceeds the true entries) or else in the process exit.
C5_MaskedNeverReturns ==
    call.masked =>
        /\ ret.kind \in {"ValueError", "SystemExit"}
        /\ ret.indices = << >>
        /\ (ret.kind = "ValueError") <=> (call.batch_size > call.nonzero_count)
        /\ (ret.kind = "SystemExit") <=> (sampler_pc = "exited")

\* The base draw succeeded, and the call still ended in the exit.
C5_Witness ==
    /\ call.masked
    /\ call.batch_size <= call.nonzero_count
    /\ ret.kind = "SystemExit"
    /\ sampler_pc = "exited"

\* ------------------------------------------ Properties of the loss schedule

\* Under SpecTrain every call is a training call, so cosine_idx counts them.
TrainingCalls == cosine_idx

\* The position of call n in the 600-call period of one long and one short window.
PeriodPos(n) == n % 600

C6_PhaseOfCount ==
    /\ conv_train_bool = (PeriodPos(TrainingCalls) >= 500)
    /\ conv_switch = IF conv_train_bool THEN 100 ELSE 500
    /\ conv_train_idx = IF conv_train_bool
                        THEN PeriodPos(TrainingCalls) - 500
                        ELSE PeriodPos(TrainingCalls)

\* C6: in a run of training calls the phase flag starts false, flips exactly
\* on the calls where conv_train_idx wraps to 0, and the window alternates
\* 500, 100, 500, ..., so the flips fall on calls 500, 600, 1100, 1200, ...:
\* after n calls the flag is true exactly when n mod 600 >= 500.
C6_PhaseMachine ==
    /\ []C6_PhaseOfCount
    /\ [][(conv_train_bool' # conv_train_bool) <=> (conv_train_idx' = 0)]_vars

\* The fourth flip, on call 1200, back to the classifier phase.
C6_Witness ==
    /\ TrainingCalls = 1200
    /\ ~conv_train_bool
    /\ conv_train_idx = 0
    /\ conv_switch = 500

SimilarityTerms == {"vol_tvs", "temporal_simm"}

\* C7: the loss dictionary of a training call holds "conv_mlp" exactly when
\* the phase flag, as that call left it, is false, and holds "vol_tvs" and
\* "temporal_simm" exactly when it is true; never both kinds, never neither.
C7_ExclusivePhases ==
    loss_mode = "train" =>
        /\ ("conv_mlp" \in loss_keys) <=> ~conv_train_bool
        /\ (SimilarityTerms \subseteq loss_keys) <=> conv_train_bool
        /\ (SimilarityTerms \cap loss_keys # {}) <=> conv_train_bool

\* The training call that flips the flag to true already returns the
\* similarity terms.
C7_Witness ==
    /\ loss_mode = "train"
    /\ conv_train_bool
    /\ conv_train_idx = 0
    /\ SimilarityTerms \subseteq loss_keys
    /\ "conv_mlp" \notin loss_keys

\* C8: after populate_modules and after any sequence of get_loss_dict calls
\* every compressor parameter has requires_grad = not conv_train_bool: frozen
\* while the loss holds the similarity terms, trainable while it holds conv_mlp.
C8_FrozenInSimilarityPhase ==
    /\ Len(conv_requires_grad) = NumScales
    /\ \A m \in 1..Len(conv_requires_grad) : conv_requires_grad[m] = ~conv_train_bool
    /\ loss_mode = "train" =>
           \A m \in 1..Len(conv_requires_grad) :
               /\ (SimilarityTerms \cap loss_keys # {}) => ~conv_requires_grad[m]
               /\ ("conv_mlp" \in loss_keys) => conv_requires_grad[m]

\* The compressors frozen, seen after an evaluation call inside the
\* similarity phase.
C8_Witness ==
    /\ conv_train_bool
    /\ loss_mode = "eval"
    /\ Len(conv_requires_grad) = NumScales
    /\ \A m \in 1..NumScales : ~conv_requires_grad[m]

RECURSIVE Pow2(_)
Pow2(k) == IF k = 0 THEN 1 ELSE 2 * Pow2(k - 1)

\* min(0.0001 * 2^floor(n/3000), 0.01), in units of 0.0001.
ClaimedVolTvMult(n) ==
    IF Pow2(n \div 3000) <= 100 THEN Pow2(n \div 3000) ELSE 100

\* C9: in a run of training calls vol_tv_mult after n calls is
\* min(0.0001 * 2^floor(n/3000), 0.01); it changes on no call whose count is
\* not a multiple of 3000, never decreases and never exceeds 0.01.
C9_VolTvSchedule ==
    /\ [](vol_tv_mult = ClaimedVolTvMult(TrainingCalls) /\ vol_tv_mult <= 100)
    /\ [][/\ (vol_tv_mult' # vol_tv_mult) => (cosine_idx' % 3000 = 0)
          /\ vol_tv_mult' >= vol_tv_mult]_vars

\* The seventh doubling, on call 21000, is the one the cap cuts: 0.0128 -> 0.01.
C9_Witness ==
    /\ TrainingCalls = 21000
    /\ vol_tv_mult = 100

StackedCollated ==
    /\ pixel_call.op = "sample"
    /\ image_batch.image = "tensor"

\* Every (image, row, col) triple of a batch of n images of h x w pixels.
IndexSpace(n, h, w) == {<<i, r, c>> : i \in 0..(n - 1), r \in 0..(h - 1), c \in 0..(w - 1)}

\* ---- C11 ----
\* C11: for a stacked batch of 2 images of size 4x4 with no mask,
\* collate_image_dataset_batch (all-pixels mode) returns a collated batch
\* whose "indices" hold all 32 (image, row, col) triples with no duplicates.
C11_AllTriples ==
    (/\ StackedCollated
     /\ sampler_class = "PixelSampler"
     /\ ~image_batch.has_mask
     /\ image_batch.shapes = <<<<4, 4>>, <<4, 4>>>>) =>
        /\ pixel_ret.kind = "batch"
        /\ "indices" \in pixel_ret.keys
        /\ Len(pixel_ret.indices) = 32
        /\ Range(pixel_ret.indices) = IndexSpace(2, 4, 4)

\* ---- C12 ----
\* The triples of the returned "indices", the rows of a 2-dimensional tensor.
ReturnedTriples == Range(pixel_ret.indices)

\* C12: in the batch the stacked collation path returns, the image
\* coordinate of every triple is the camera id batch["image_idx"][i] of the
\* batch position i its pixel was drawn from: where a mask restricts the
\* draw, a position whose mask is true at the triple's (row, col).
C12_AbsoluteCameraIds ==
    (StackedCollated /\ pixel_ret.kind = "batch" /\ pixel_ret.indices_dim = 2) =>
        \A t \in ReturnedTriples :
            \E i \in 1..Len(image_batch.shapes) :
                /\ t[1] = image_batch.image_idx[i]
                /\ image_batch.has_mask => <<t[2], t[3]>> \in image_batch.mask[i]

\* ---- C13 ----
\* sample has just collated the list batch held.
ListCollated ==
    /\ pixel_call.op = "sample"
    /\ image_batch.image = "list"

\* The share of the budget n that list position i (from 1) of N gets.
ShareOf(n, N, i) ==
    IF i = N THEN n - (N - 1) * (n \div N) ELSE n \div N

\* The collated pixel values gathered from list position i (from 1).
GatheredFrom(i) == {k \in 1..Len(pixel_ret.image) : pixel_ret.image[k][1] = i - 1}

\* C13: collate_image_dataset_batch_list asks sample_method for
\* floor(n / N) rays for each of the first N - 1 images and for
\* n - (N - 1) * floor(n / N) rays for the last one; when it returns a batch,
\* "image" and "indices" both have n rows, made of those shares, and the
\* assertion on the number of rows of "image" never fails.
C13_BudgetSplit ==
    ListCollated =>
        LET N == Len(image_batch.shapes)
            n == num_rays_per_batch
        IN  /\ pixel_ret.kind # "AssertionError"
            /\ \A i \in 1..Len(pixel_ret.calls) :
                  pixel_ret.calls[i].batch_size = ShareOf(n, N, i)
            /\ pixel_ret.kind = "batch" =>
                  /\ Len(pixel_ret.calls) = N
                  /\ Len(pixel_ret.indices) = n
                  /\ Len(pixel_ret.image) = n
                  /\ \A i \in 1..N : Cardinality(GatheredFrom(i)) = ShareOf(n, N, i)

\* A budget of 3 rays split over 2 images, 1 and 2, in a returned batch.
C13_Witness ==
    /\ ListCollated
    /\ pixel_ret.kind = "batch"
    /\ Len(image_batch.shapes) = 2
    /\ num_rays_per_batch = 3
    /\ Cardinality(GatheredFrom(1)) = 1
    /\ Cardinality(GatheredFrom(2)) = 2

\* ---- C14 ----
\* C14: in the batch the list path returns, row k of "indices" is
\* (batch["image_idx"][i], row, col), where i is the list position and
\* (row, col) the place row k of "image" was read from.
C14_IndicesMatchPixels ==
    (ListCollated /\ pixel_ret.kind = "batch") =>
        /\ Len(pixel_ret.indices) = Len(pixel_ret.image)
        /\ \A k \in 1..Len(pixel_ret.indices) :
              pixel_ret.indices[k] = <<image_batch.image_idx[pixel_ret.image[k][1] + 1],
                                       pixel_ret.image[k][2], pixel_ret.image[k][3]>>

\* A returned batch with a pixel off the diagonal, read from a list position
\* whose camera id differs from the position.
C14_Witness ==
    /\ ListCollated
    /\ pixel_ret.kind = "batch"
    /\ \E k \in 1..Len(pixel_ret.image) :
          /\ pixel_ret.image[k][2] # pixel_ret.image[k][3]
          /\ image_batch.image_idx[pixel_ret.image[k][1] + 1] # pixel_ret.image[k][1]
          /\ pixel_ret.indices[k][1] # pixel_ret.image[k][1]

\* ---- C15 ----
\* C15: sample goes to the list path when image_batch["image"] is a list, to
\* the stacked path when it is a tensor, and otherwise raises the
\* invalid-input ValueError having called neither path nor sample_method.
C15_Dispatch ==
    pixel_call.op = "sample" =>
        IF image_batch.image = "list"
        THEN pixel_ret.path = "collate_image_dataset_batch_list"
        ELSE IF image_batch.image = "tensor"
        THEN pixel_ret.path = "collate_image_dataset_batch"
        ELSE /\ pixel_ret.kind = "ValueError"
             /\ pixel_ret.path = "none"
             /\ pixel_ret.calls = << >>
             /\ pixel_ret.keys = {}

\* sample was called on a batch whose "image" is neither a list nor a tensor.
C15_Witness ==
    /\ pixel_call.op = "sample"
    /\ image_batch.image = "other"
    /\ pixel_ret.kind = "ValueError"

\* ---- C16 ----
\* The budget the constructor or set_num_rays_per_batch was last given.
RequestedRays == pixel_call.num_rays_per_batch

\* C16: after construction and after every set_num_rays_per_batch(n), a
\* PatchPixelSampler's num_rays_per_batch is floor(n / patch_size^2) *
\* patch_size^2: the largest multiple of patch_size^2 that is at most n.
C16_PatchRounding ==
    (sampler_class = "PatchPixelSampler"
        /\ pixel_call.op \in {"__init__", "set_num_rays_per_batch"}) =>
        LET area == patch_size * patch_size
        IN  /\ num_rays_per_batch % area = 0
            /\ num_rays_per_batch <= RequestedRays
            /\ RequestedRays - num_rays_per_batch < area

\* Patch size 2 and a requested budget of 10 rays store 8.
C16_Witness ==
    /\ sampler_class = "PatchPixelSampler"
    /\ patch_size = 2
    /\ pixel_call.op = "set_num_rays_per_batch"
    /\ RequestedRays = 10
    /\ num_rays_per_batch = 8

\* ---- C17 ----
\* sample_method has just been called directly on the stacked batch held.
MethodCalled == pixel_call.op = "sample_method"

\* Rows (j * p * p + 1)..((j + 1) * p * p) of rows are the p x p patch with
\* top-left corner (r0, c0) of image i, row by row.
IsPatchBlock(rows, j, p, i, r0, c0) ==
    \A a \in 0..(p - 1), b \in 0..(p - 1) :
        rows[j * p * p + a * p + b + 1] = <<i, r0 + a, c0 + b>>

\* C17: without a mask, PatchPixelSampler.sample_method returns batch_size
\* triples made of contiguous patch_size x patch_size blocks, each block with
\* one image id and lying inside the image.
C17_PatchBlocks ==
    (MethodCalled /\ sampler_class = "PatchPixelSampler"
        /\ ~IsTensorMask(pixel_call.method.mask) /\ ~pixel_call.method.all_pixels
        /\ pixel_call.method.batch_size > 0
        /\ pixel_call.method.batch_size % (patch_size * patch_size) = 0) =>
        LET c == pixel_call.method
            p == patch_size
        IN  /\ pixel_ret.kind = "indices"
            /\ Len(pixel_ret.indices) = c.batch_size
            /\ \A j \in 0..((c.batch_size \div (p * p)) - 1) :
                  \E i \in 0..(c.num_images - 1), r0 \in 0..(c.image_height - p),
                     c0 \in 0..(c.image_width - p) :
                      IsPatchBlock(pixel_ret.indices, j, p, i, r0, c0)

\* ---- C18 ----
\* The sample_method call made was the all_pixels one of the base class with
\* batch_size = num_images * image_height * image_width.
AllPixelsOfWholeSpace ==
    /\ MethodCalled
    /\ sampler_class = "PixelSampler"
    /\ ~IsTensorMask(pixel_call.method.mask)
    /\ pixel_call.method.all_pixels
    /\ pixel_call.method.batch_size =
          pixel_call.method.num_images * pixel_call.method.image_height
              * pixel_call.method.image_width

\* C18: with all_pixels and batch_size = N * H * W, row k (from 0) of the
\* result is (k // (H * W), (k // W) % H, k % W), so that every triple of the
\* index space appears exactly once, in row-major order.
C18_RowMajor ==
    AllPixelsOfWholeSpace =>
        LET N == pixel_call.method.num_images
            H == pixel_call.method.image_height
            W == pixel_call.method.image_width
        IN  /\ pixel_ret.kind = "indices"
            /\ Len(pixel_ret.indices) = N * H * W
            /\ \A k \in 0..(N * H * W - 1) :
                  pixel_ret.indices[k + 1] = <<k \div (H * W), (k \div W) % H, k % W>>
            /\ Range(pixel_ret.indices) = IndexSpace(N, H, W)

\* The 12 triples of 2 images of 2 x 3 pixels were returned.
C18_Witness ==
    /\ AllPixelsOfWholeSpace
    /\ image_batch.shapes = <<<<2, 3>>, <<2, 3>>>>
    /\ pixel_ret.kind = "indices"
    /\ Len(pixel_ret.indices) = 12
    /\ pixel_ret.indices[12] = <<1, 1, 2>>

\* ---- C19 ----
\* The sample_method call made had a mask; TrueCount is the number of true
\* entries of that mask.
MaskedCalled ==
    /\ MethodCalled
    /\ IsTensorMask(pixel_call.method.mask)

TrueCount == Cardinality(pixel_call.method.mask.true)

\* C19: a masked draw with batch_size at most the number of true entries
\* returns exactly batch_size triples, each a true entry of the mask and no
\* two the same.
C19_MaskedDistinct ==
    (MaskedCalled /\ pixel_call.method.batch_size <= TrueCount) =>
        /\ pixel_ret.kind = "indices"
        /\ Len(pixel_ret.indices) = pixel_call.method.batch_size
        /\ \A k \in 1..Len(pixel_ret.indices) :
              pixel_ret.indices[k] \in pixel_call.method.mask.true
        /\ \A j, k \in 1..Len(pixel_ret.indices) :
              j # k => pixel_ret.indices[j] # pixel_ret.indices[k]

\* 2 of the 3 true entries of a mask over 4 pixels were drawn.
C19_Witness ==
    /\ MaskedCalled
    /\ TrueCount = 3
    /\ pixel_call.method.batch_size = 2
    /\ pixel_ret.kind = "indices"
    /\ Len(pixel_ret.indices) = 2

\* ---- C20 ----
\* C20: a masked draw with batch_size larger than the number of true entries
\* fails at once with the ValueError of random.sample and returns no triple;
\* it never returns fewer or repeated rows.
C20_MaskedTooFew ==
    MaskedCalled =>
        /\ pixel_call.method.batch_size > TrueCount =>
              /\ pixel_ret.kind = "ValueError"
              /\ pixel_ret.indices = << >>
        /\ pixel_ret.kind = "indices" => pixel_call.method.batch_size <= TrueCount

\* 2 rays were asked of a mask with a single true entry.
C20_Witness ==
    /\ MaskedCalled
    /\ TrueCount = 1
    /\ pixel_call.method.batch_size = 2
    /\ pixel_ret.kind = "ValueError"

\* ---- C23 ----
\* C23: EquirectangularPixelSampler.sample_method takes no all_pixels
\* argument, so the all_pixels call of the stacked path fails with a
\* TypeError, and sample on a stacked batch without a "mask" key raises it
\* instead of returning a pixel batch.
C23_EquirectangularAllPixels ==
    (StackedCollated /\ sampler_class = "EquirectangularPixelSampler"
        /\ ~image_batch.has_mask) =>
        /\ pixel_ret.kind = "TypeError"
        /\ pixel_ret.keys = {}
        /\ pixel_ret.indices = << >>
        /\ Len(pixel_ret.calls) = 1
        /\ pixel_ret.calls[1].all_pixels

\* sample was called on 2 stacked images of 2 x 3 pixels without a mask.
C23_Witness ==
    /\ StackedCollated
    /\ sampler_class = "EquirectangularPixelSampler"
    /\ ~image_batch.has_mask
    /\ image_batch.shapes = <<<<2, 3>>, <<2, 3>>>>
    /\ pixel_ret.kind = "TypeError"

\* ---- C30 ----
\* The step is a get_loss_dict call made in evaluation mode.
EvalCallStep == cosine_idx' # cosine_idx /\ loss_mode' = "eval"

\* The step is a get_loss_dict call made in training mode.
TrainCallStep == cosine_idx' # cosine_idx /\ loss_mode' = "train"

C26_TierZeroInBounds ==
    (ret.kind = "indices" /\ ~call.masked) =>
        \A t \in Range(ret.indices[1]) :
            /\ t[1] \in 0..(call.num_images - 1)
            /\ t[2] \in 0..(call.image_height - 1)
            /\ t[3] \in 0..(call.image_width - 1)

\* ---- C27 ----
\* The anchors one fill of the row queue and of the column queue holds.
RowAnchors == (FrameHeight \div PatchSize) - 1
ColAnchors == (NarrowFrameWidth \div PatchSize) - 1

\* A call took the first anchor of the queue, after filling the queue with
\* `count` anchors if and only if it was empty when the call began.
PopsOne(queue, queue_after, returned, count) ==
    /\ Len(queue) > 0 => (queue_after = Tail(queue) /\ returned = Head(queue))
    /\ Len(queue) = 0 => (Len(queue_after) = count - 1 /\ returned \notin Range(queue_after))

\* C27: every fill of the row queue holds (height // patch_size) - 1
\* pairwise distinct anchors start + k * patch_size, k = 0 ..
\* (height // patch_size) - 2, for one start in [0, patch_size - 1], and the
\* column queue likewise with the width; each unmasked call removes exactly
\* one anchor from each queue, and a queue is refilled only when it is empty
\* at the start of a call, whatever the state of the other queue.
C27_AnchorQueues ==
    /\ [](/\ OneFill(RowsUsed, dh_lst[1], FrameHeight \div PatchSize)
          /\ OneFill(ColsUsed, dw_lst[1], NarrowFrameWidth \div PatchSize))
    /\ [][SampledStep =>
            /\ PopsOne(dh_lst[1], dh_lst'[1], ret'.dh[1], RowAnchors)
            /\ PopsOne(dw_lst[1], dw_lst'[1], ret'.dw[1], ColAnchors)
            /\ (Len(dh_used') <= Len(dh_used)) <=> (Len(dh_lst[1]) = 0)
            /\ (Len(dw_used') <= Len(dw_used)) <=> (Len(dw_lst[1]) = 0)]_vars

\* The second call after construction: it refilled the column queue, which
\* the first call had emptied, and took the second anchor of the row fill.
C27_Witness ==
    /\ ret.kind = "indices"
    /\ RowAnchors > ColAnchors
    /\ Len(dh_used) = 2
    /\ Len(dw_used) = 1
    /\ Len(dh_lst[1]) = RowAnchors - 2
    /\ Len(dw_lst[1]) = ColAnchors - 1

\* ---- C28 ----
\* The all_pixels grid of one tier of side d over NumImages images, row by row.
ConstructedGrid(d) ==
    [k \in 1..(NumImages * d * d) |->
        <<(k - 1) \div (d * d), ((k - 1) \div d) % d, (k - 1) % d>>]

\* C28: the 4 stored base grids are computed at construction and never
\* change: after any sequence of sample_method calls each equals its value
\* at construction, the grid of side patch_size halved per tier, and the
\* anchors of a call show in the returned copy only, so the first tier-0
\* triple of every call is (selected image, dh, dw) of that call.
C28_BaseGridsFixed ==
    /\ [](sampler_pc # "none" =>
            /\ Len(indices) = NumTiers
            /\ \A t \in 1..NumTiers : indices[t] = ConstructedGrid(PatchSize \div (2 ^ (t - 1)))
            /\ ret.kind = "indices" =>
                  ret.indices[1][1] = <<sel_used[Len(sel_used)], ret.dh[1], ret.dw[1]>>)
    /\ [][indices' = indices]_vars

\* More calls than there are images were made, the last with nonzero
\* anchors: some image's block was offset twice.
C28_Witness ==
    /\ ret.kind = "indices"
    /\ ncalls > NumImages
    /\ ret.dh[1] > 0
    /\ ret.dw[1] > 0
    /\ indices[1][1] = <<0, 0, 0>>

\* ---- C29 ----
\* sample has just collated, with keep_full_image, a stacked batch that has
\* one image per id of the rotation, of the frame the anchors tile.
TieredCollatedFull ==
    /\ pixel_call.op = "sample"
    /\ sampler_class = "TieredFeaturePatchPixelSampler"
    /\ keep_full_image
    /\ image_batch.shapes = [i \in 1..NumImages |-> <<FrameHeight, FrameWidth>>]

\* C29: with the tiered sampler and keep_full_image, the batch returned by
\* collate_image_dataset_batch holds a "full_image" patch co-registered with
\* the tier-0 indices: for the selected image s and r, c in [0, patch_size),
\* full_image[0][r][c] is batch["image"][s][dh + r][dw + c], and the tier-0
\* list is the triples (s, dh + r, dw + c) in row-major order, dh and dw
\* being the row and the column anchor of the same call.
C29_CoRegistered ==
    TieredCollatedFull =>
        LET s == sel_used[Len(sel_used)]
            dh == ret.dh[1]
            dw == ret.dw[1]
        IN  /\ pixel_ret.kind = "batch"
            /\ {"indices", "full_image"} \subseteq pixel_ret.keys
            /\ dh = dh_used[Len(dh_used)][1]
            /\ dw = dw_used[Len(dw_used)][1]
            /\ Len(pixel_ret.full_image) = 1
            /\ Len(pixel_ret.full_image[1]) = PatchSize
            /\ \A r \in 0..(PatchSize - 1) :
                  /\ Len(pixel_ret.full_image[1][r + 1]) = PatchSize
                  /\ \A c \in 0..(PatchSize - 1) :
                        /\ pixel_ret.full_image[1][r + 1][c + 1] = <<s, dh + r, dw + c>>
                        /\ pixel_ret.indices[1][r * PatchSize + c + 1] = <<s, dh + r, dw + c>>
            /\ Len(pixel_ret.indices[1]) = PatchSize * PatchSize

\* A patch was cut at a row anchor that differs from the column anchor.
C29_Witness ==
    /\ TieredCollatedFull
    /\ pixel_ret.kind = "batch"
    /\ ret.dh[1] # ret.dw[1]
    /\ ret.dh[1] > 0
    /\ pixel_ret.full_image[1][1][1] = <<sel_used[Len(sel_used)], ret.dh[1], ret.dw[1]>>

\* ---- C21 ----
\* x is the stored value v limited to [-bound, bound].
LimitedTo(x, v, bound) ==
    /\ v > bound => x = bound
    /\ v < -bound => x = -bound
    /\ (v >= -bound /\ v <= bound) => x = v

\* get_outputs has just returned on the bundle held.
Rendered == outputs.kind = "outputs"

\* The camera of ray k of the bundle as it was on entry, counted from 1.
CameraOfRay(k) == outputs.entry.camera_indices.ids[k] + 1

\* C21: get_outputs applies a bounded per-camera correction: the rotation of
\* every ray is built from the three angles of the ray's camera, each clipped
\* to [-0.01, 0.01] (a stored 5.0 is applied as 0.01), and the origin of the
\* ray is its value on entry plus that camera's position offset clipped to
\* [-0.2, 0.2] per coordinate.
C21_BoundedCorrection ==
    Rendered =>
        \A k \in 1..Len(outputs.entry.origins) :
            /\ LimitedTo(outputs.rotations[k].roll,
                         camera_pose_delts.rot_angs[1][CameraOfRay(k)], RotClip)
            /\ LimitedTo(outputs.rotations[k].yaw,
                         camera_pose_delts.rot_angs[2][CameraOfRay(k)], RotClip)
            /\ LimitedTo(outputs.rotations[k].pitch,
                         camera_pose_delts.rot_angs[3][CameraOfRay(k)], RotClip)
            /\ ray_bundle.directions[k] =
                  [rot |-> outputs.rotations[k], dir |-> outputs.entry.directions[k]]
            /\ \A x \in 1..3 :
                  LimitedTo(ray_bundle.origins[k][x] - outputs.entry.origins[k][x],
                            camera_pose_delts.pos_diff[CameraOfRay(k)][x], PosClip)

\* A ray of the last camera, whose stored roll is 5.0 radians and whose
\* stored offsets leave [-0.2, 0.2] on both sides: 0.01 and the clipped
\* offsets were applied.
C21_Witness ==
    /\ Rendered
    /\ \E k \in 1..Len(outputs.entry.origins) :
          /\ CameraOfRay(k) = NumCameras
          /\ camera_pose_delts.rot_angs[1][CameraOfRay(k)] = LargeAngle
          /\ outputs.rotations[k].roll = RotClip
          /\ outputs.rotations[k].yaw = -RotClip
          /\ camera_pose_delts.pos_diff[CameraOfRay(k)] = <<1, -5, 3>>
          /\ ray_bundle.origins[k] = <<10 * k + 1, -PosClip, PosClip - k>>

\* ---- C22 ----
\* get_outputs was called on a bundle without the camera-index field.
CalledWithoutCameraIndices ==
    /\ outputs.kind # "none"
    /\ ~outputs.entry.camera_indices.present

\* C22: on a ray bundle that lacks the per-ray camera-index field,
\* get_outputs fails, with the bundle's origins and directions as they were
\* on entry and neither the proposal sampler nor the field invoked.
C22_FailsBeforeOverwrite ==
    CalledWithoutCameraIndices =>
        /\ outputs.kind = "AttributeError"
        /\ ray_bundle = outputs.entry
        /\ outputs.invoked = << >>
        /\ outputs.keys = {}

\* The call failed on a bundle of two rays with times.
C22_Witness ==
    /\ CalledWithoutCameraIndices
    /\ outputs.kind = "AttributeError"
    /\ Len(ray_bundle.origins) = 2
    /\ ray_bundle.has_times
    /\ outputs.density_fns = "partial(times)"

\* ======================================================================
\* Properties of the plane regularizers (checked under SpecPlanes)
\* ======================================================================

\* The metrics held were computed on the grids held.
MetricsFresh == train_phase = "step" /\ metrics_dict.kind = "metrics"

\* Every entry of plane t as (channel, row, column).
EntriesOf(t) == (1..Len(t)) \X (1..Len(t[1])) \X (1..Len(t[1][1]))

\* The mean of |1 - value| over all entries of plane t.
DistanceFromOne(t) == Mean([i \in 1..Cardinality(EntriesOf(t)) |-> LET x == CellAt(i, Len(t[1]), Len(t[1][1])) IN Abs(1 - t[x[1]][x[2]][x[3]])])

\* The spatiotemporal planes of every scale.
SpatioTemporal == (1..GridScales) \X {2, 4, 5, 6, 7, 8}

AllOnes(t) == \A x \in EntriesOf(t) : t[x[1]][x[2]][x[3]] = 1

\* ---- C24 ----
\* C24: l1_time_planes is an L1 distance from the multiplicative identity: on
\* grids whose spatiotemporal planes hold 1 everywhere it is 0, and in general
\* it is the mean over those planes of |1 - value|.
C24_L1FromIdentity ==
    MetricsFresh =>
        /\ (\A x \in SpatioTemporal : AllOnes(field_grids[x[1]][x[2]]))
              => metrics_dict.l1_time_planes = Frac(0, 1)
        /\ metrics_dict.l1_time_planes =
              FracDiv(FracSum(SpatioTemporal,
                              [x \in SpatioTemporal |-> DistanceFromOne(field_grids[x[1]][x[2]])]),
                      Cardinality(SpatioTemporal))

\* ---- C25 ----
\* Plane t restricted to its channels 0..n-1.
ChannelsBelow(t, n) == [c \in 1..n |-> t[c]]

\* Height plus width variation over all channels of the planes 0, 1, 3, 6, 7,
\* 8, width variation over the first num_comps channels of the planes 2, 4, 5,
\* summed over the scales and divided by the number of planes of all scales.
AsymmetricVariation(grids_held) ==
    LET full == (1..GridScales) \X {0, 1, 3, 6, 7, 8}
        wide == (1..GridScales) \X {2, 4, 5}
    IN  FracDiv(FracAdd(FracSum(full, [x \in full |->
                                   FracAdd(HTv(grids_held[x[1]][x[2]]), WTv(grids_held[x[1]][x[2]]))]),
                        FracSum(wide, [x \in wide |->
                                   WTv(ChannelsBelow(grids_held[x[1]][x[2]], NumComps))])),
                NumPlanes * GridScales)

\* The last optimizer step rewrote an entry of a channel >= num_comps of one
\* of the planes 2, 4, 5.
AuxiliaryUpdate ==
    /\ grid_update.kind = "update"
    /\ grid_update.plane \in {2, 4, 5}
    /\ grid_update.channel >= NumComps

\* C25: space_tv_loss treats the planes asymmetrically: planes 0, 1, 3, 6, 7, 8
\* contribute height + width variation over all channels, planes 2, 4, 5
\* width-only variation over their first num_comps channels, and the sum is
\* divided by the total number of planes; a change of a value in a channel
\* >= num_comps of planes 2, 4, 5 leaves plane_tv as it was before the change.
C25_AsymmetricPlanes ==
    /\ [](MetricsFresh => metrics_dict.plane_tv = AsymmetricVariation(field_grids))
    /\ [][(AuxiliaryUpdate /\ train_phase = "metrics")
             => metrics_dict'.plane_tv = metrics_dict.plane_tv]_vars

\* plane_tv was recomputed after an entry of an auxiliary channel of plane 4
\* of the second scale was rewritten, on grids whose planes vary.
C25_Witness ==
    /\ MetricsFresh
    /\ AuxiliaryUpdate
    /\ grid_update.plane = 4
    /\ grid_update.scale = GridScales
    /\ metrics_dict.plane_tv.num > 0
    /\ WTv(field_grids[GridScales][4]) # WTv(ChannelsBelow(field_grids[GridScales][4], NumComps))

====
